---- MODULE Spec2Model ----
(***************************************************************************)
(* Model of the dataset management core of the annotation engine:          *)
(*   sm/engine/dataset.py          Dataset, DatasetStatus                  *)
(*   sm/engine/dataset_manager.py  ConfigDiff, SMapiDatasetManager,        *)
(*                                 SMDaemonDatasetManager                  *)
(*   sm/engine/mol_db.py           MolecularDB.sf_df                       *)
(* The specifications share the variables; each one drives one component   *)
(* and keeps the variables of the others at their idle values.             *)
(*   SpecCfg    ConfigDiff.compare_configs on every pair of configs        *)
(*   SpecApi    SMapiDatasetManager.add / delete / update                  *)
(*   SpecPeaks  MolecularDB.set_job_id / sf_df                             *)
(*   SpecOpt    SMapiDatasetManager.add_optical_image / del_optical_image  *)
(*   SpecZoom   SMapiDatasetManager._transform_scan                        *)
(*   SpecDaemon SMDaemonDatasetManager.add / update / delete               *)
(*   SpecSave   Dataset.save / set_status                                  *)
(*   SpecPipe   Queued add / delete, the action queue and process          *)
(*   SpecCrash  SMDaemonDatasetManager.update failing or dying on the way  *)
(*   SpecMemo   sf_df and set_job_id on several MolecularDB instances      *)
(*   SpecSfs    sfs read by several MolecularDB instances, step by step    *)
(***************************************************************************)
EXTENDS Integers, Sequences, FiniteSets, TLC

VARIABLES
    \* ---- ConfigDiff.compare_configs
    cc_in,          \* the pair of configs handed to the call
    cc_old,         \* the caller's `old` dict as it is after the call
    cc_new,         \* the caller's `new` dict as it is after the call
    cc_res,         \* results of the calls made so far, oldest first
    \* ---- SMapiDatasetManager dispatch
    mode,           \* DatasetManager.mode
    has_status_queue, \* whether a status_queue was given to the manager
    db_dataset,     \* table dataset: ds id -> row or NoRow
    call,           \* the last call: operation and arguments
    ret,            \* how the last call ended: "ok" or the exception raised
    trace,          \* effects of the last call on its collaborators, in order
    \* ---- MolecularDB
    theor_peaks,    \* (sf_id, adduct) pairs with precomputed peaks
    target_decoy_add, \* job id -> sf_id -> decoy adduct assigned (or NoAdduct)
    m_job_id,       \* MolecularDB._job_id
    m_sf_df,        \* MolecularDB._sf_df
    m_ret,          \* outcome of the last sf_df access
    m_out,          \* table returned by the last sf_df access, None if it raised
    m_q,            \* result sets of the two queries of the last assembly
    \* ---- optical images
    o_ds,           \* table dataset: ds id -> [optical_image, transform] or NoRow
    o_jobs,         \* ds ids with a finished job holding an iso image
    optical_image,  \* table optical_image: set of <<id, ds_id, zoom>>
    raw_store,      \* image store, kind raw_optical_image: ids present
    tile_store,     \* image store, kind optical_image: ids present
    next_img_id,    \* next id the image store hands out on post_image
    o_call,         \* the last optical-image call
    o_ret,          \* how it ended
    o_deleted,      \* image store deletions of the last call: [raw, tiles], in order
    o_posted,       \* tile ids post_image returned to the last call, in order
    img_store_strict, \* whether the image store fails a delete of an id it lacks
    \* ---- _transform_scan
    round_half_even, \* whether round() of the interpreter rounds a tie to even
    z_call,         \* the last call: dims and zoom
    z_zoom,         \* [done, zoom, size]: the zoom and canvas size it computed
    \* ---- SMDaemonDatasetManager (with mode, has_status_queue, db_dataset,
    \*      call, ret, trace above)
    job,            \* table job: set of [id, ds_id, mol_db]
    es_index,       \* search index: set of [ds_id, mol_db, iso_gen]
    iso_images,     \* image store, kind iso_image: ids present
    input_data,     \* object store: input paths that hold raw data
    \* ---- the action queue between the two managers
    action_queue,   \* messages published and not yet consumed, oldest first
    \* ---- MolecularDB instances
    inst,           \* instance -> [job_id, sf_df]: _job_id and _sf_df of each
    i_last,         \* the last call on an instance and how it ended
    sum_formula,    \* table sum_formula: set of [id, db_id, sf]
    sfs_run         \* instance -> [pc, fetched, count, sfs]: its sfs access

cfg_vars  == <<cc_in, cc_old, cc_new, cc_res>>
api_vars  == <<mode, has_status_queue, db_dataset, call, ret, trace>>
peak_vars == <<theor_peaks, target_decoy_add, m_job_id, m_sf_df, m_ret, m_out, m_q>>
opt_vars  == <<o_ds, o_jobs, optical_image, raw_store, tile_store, next_img_id,
               o_call, o_ret, o_deleted, o_posted, img_store_strict>>
zoom_vars == <<round_half_even, z_call, z_zoom>>
dmn_vars  == <<job, es_index, iso_images, input_data>>
pipe_vars == <<action_queue>>
memo_vars == <<inst, i_last>>
sfs_vars  == <<sum_formula, sfs_run>>
vars == <<cfg_vars, api_vars, peak_vars, opt_vars, zoom_vars, dmn_vars, pipe_vars,
          memo_vars, sfs_vars>>

\* Python's None and SQL's NULL, where the other values are strings
None == "None"
\* Python's None where the other values are dicts
NoneDict == [none |-> "None"]
\* Python's True where the other value is None
True == "True"
\* the result of a select_one that finds no row
NoRow == [norow |-> TRUE]

(***************************************************************************)
(* dict helpers                                                            *)
(***************************************************************************)
\* dict.copy(): a new dict with the same items
dict_copy(d) == d
\* the dict after d.pop(k, None)
dict_pop(d, k) == [x \in (DOMAIN d) \ {k} |-> d[x]]
\* d.get(k, default)
dict_get(d, k, default) == IF k \in DOMAIN d THEN d[k] ELSE default

(***************************************************************************)
(* ConfigDiff                                                              *)
(***************************************************************************)
EQUAL == 0
NEW_MOL_DB == 1
INSTR_PARAMS_DIFF == 2

\* longest `databases` list of a config
MaxDbs == 2

MolDbNames == {"X", "Y"}
MolDbVersions == {"1"}
IsoGenValues == {"A", "B"}

\* one selection of a molecular database: {name} or {name, version}
MolDbSelections ==
    {[name |-> n] : n \in MolDbNames}
    \cup {[name |-> n, version |-> v] : n \in MolDbNames, v \in MolDbVersions}

DbLists == UNION {[1..n -> MolDbSelections] : n \in 0..MaxDbs}

\* dataset configs: instrument parameters, with or without a `databases` list
Configs ==
    {[isotope_generation |-> g] : g \in IsoGenValues}
    \cup {[isotope_generation |-> g, databases |-> l] : g \in IsoGenValues, l \in DbLists}

mol_dbs_to_set(mol_dbs) ==
    {<<mol_dbs[i].name, dict_get(mol_dbs[i], "version", None)>> : i \in DOMAIN mol_dbs}

\* compare_configs without the copies: the pops act on the caller's dicts
compare_configs_nocopy(old, new) ==
    IF old = new
    THEN [res |-> EQUAL, old |-> old, new |-> new]
    ELSE LET old_rest == dict_pop(old, "databases")
             new_rest == dict_pop(new, "databases")
             old_mol_dbs == mol_dbs_to_set(dict_get(old_rest, "databases", <<>>))
             new_mol_dbs == mol_dbs_to_set(dict_get(new_rest, "databases", <<>>))
         IN [res |-> IF old_rest # new_rest THEN INSTR_PARAMS_DIFF
                     ELSE IF Cardinality(new_mol_dbs \ old_mol_dbs) > 0 THEN NEW_MOL_DB
                     ELSE EQUAL,
             old |-> old_rest, new |-> new_rest]

\* compare_configs with the set difference taken the wrong way round
compare_configs_swapped(old, new) ==
    IF old = new
    THEN [res |-> EQUAL, old |-> old, new |-> new]
    ELSE LET old_rest == dict_pop(dict_copy(old), "databases")
             new_rest == dict_pop(dict_copy(new), "databases")
             old_mol_dbs == mol_dbs_to_set(dict_get(old, "databases", <<>>))
             new_mol_dbs == mol_dbs_to_set(dict_get(new, "databases", <<>>))
         IN [res |-> IF old_rest # new_rest THEN INSTR_PARAMS_DIFF
                     ELSE IF Cardinality(old_mol_dbs \ new_mol_dbs) > 0 THEN NEW_MOL_DB
                     ELSE EQUAL,
             old |-> old, new |-> new]

\* the call compare_configs(old, new): its result and the two argument dicts
\* as the call leaves them
compare_configs_run(old, new) ==
    IF old = new
    THEN [res |-> EQUAL, old |-> old, new |-> new]
    ELSE LET old_rest == dict_pop(dict_copy(old), "databases")
             new_rest == dict_pop(dict_copy(new), "databases")
             old_mol_dbs == mol_dbs_to_set(dict_get(old, "databases", <<>>))
             new_mol_dbs == mol_dbs_to_set(dict_get(new, "databases", <<>>))
         IN [res |-> IF old_rest # new_rest THEN INSTR_PARAMS_DIFF
                     ELSE IF Cardinality(new_mol_dbs \ old_mol_dbs) > 0 THEN NEW_MOL_DB
                     ELSE EQUAL,
             old |-> old, new |-> new]

compare_configs(old, new) == compare_configs_run(old, new).res

\* calls of compare_configs made on one pair of configs
MaxCalls == 2

CfgInit ==
    /\ cc_in \in Configs \X Configs
    /\ cc_old = cc_in[1]
    /\ cc_new = cc_in[2]
    /\ cc_res = <<>>

CfgIdle ==
    /\ cc_in = <<>>
    /\ cc_old = <<>>
    /\ cc_new = <<>>
    /\ cc_res = <<>>

\* one call compare_configs(cc_old, cc_new) on the caller's two dicts
CompareConfigs ==
    LET r == compare_configs_run(cc_old, cc_new) IN
    /\ Len(cc_res) < MaxCalls
    /\ cc_res' = Append(cc_res, r.res)
    /\ cc_old' = r.old
    /\ cc_new' = r.new
    /\ UNCHANGED cc_in

(***************************************************************************)
(* MolecularDB: the table of theoretical peaks (sf_df)                     *)
(***************************************************************************)
\* formulas of the molecular database: sum_formula ids 1..MaxSf
MaxSf == 2

SfIds == 1..MaxSf
Adducts == {"+H", "+He"}
\* iso_gen_conf['adducts'], the target adducts of the dataset config
TargetAdducts == {"+H"}
JobIds == {"j1", "j2"}
NoAdduct == "-"

\* string order of the adducts, as ORDER BY and sort_values use it
AdductRank(a) == IF a = "+H" THEN 1 ELSE 2

\* row order of ORDER BY sf.id, adduct and of sort_values(['sf_id', 'adduct'])
RowLess(r1, r2) ==
    \/ r1[1] < r2[1]
    \/ r1[1] = r2[1] /\ AdductRank(r1[2]) < AdductRank(r2[2])

\* the rows of a set in ORDER BY order
RECURSIVE OrderBy(_)
OrderBy(S) ==
    IF S = {} THEN <<>>
    ELSE LET m == CHOOSE r \in S : \A q \in S \ {r} : RowLess(r, q)
         IN <<m>> \o OrderBy(S \ {m})

\* a row put into a sorted sequence, after the rows not greater than it
RECURSIVE InsertRow(_, _)
InsertRow(r, seq) ==
    IF seq = <<>> THEN <<r>>
    ELSE IF RowLess(r, Head(seq)) THEN <<r>> \o seq
    ELSE <<Head(seq)>> \o InsertRow(r, Tail(seq))

\* DataFrame.sort_values(['sf_id', 'adduct'])
RECURSIVE sort_values(_)
sort_values(seq) ==
    IF seq = <<>> THEN <<>>
    ELSE InsertRow(seq[Len(seq)], sort_values(SubSeq(seq, 1, Len(seq) - 1)))

\* THEOR_PEAKS_TARGET_ADD_SEL: the peaks of every formula with a configured adduct
target_sf_peaks_rs ==
    OrderBy({r \in theor_peaks : r[2] \in TargetAdducts})

\* THEOR_PEAKS_DECOY_ADD_SEL: the peaks of every formula with the decoy adduct
\* the job assigned to it; no row matches a NULL job id
decoy_sf_peaks_rs(job_id) ==
    IF job_id = None THEN <<>>
    ELSE OrderBy({r \in theor_peaks : target_decoy_add[job_id][r[1]] = r[2]})

\* _check_formula_uniqueness: the assertion's condition
check_formula_uniqueness(sf_df) ==
    Cardinality({sf_df[i] : i \in DOMAIN sf_df}) = Len(sf_df)

\* an optional table: None, or the rows
NoneDf == [some |-> FALSE, rows |-> <<>>]
Df(rows) == [some |-> TRUE, rows |-> rows]
\* a query of one access: not issued, or issued with its result set
NotRun == [ran |-> FALSE, rows |-> <<>>]
Ran(rows) == [ran |-> TRUE, rows |-> rows]

\* sf_df that assembles the table on every access
sf_df_recompute(job_id, cached) ==
    LET t == target_sf_peaks_rs
        d == decoy_sf_peaks_rs(job_id)
        df == sort_values(t \o d)
    IN IF t = <<>>
       THEN [ret |-> "AssertionError: target", out |-> NoneDf, sf_df |-> NoneDf,
             target |-> Ran(t), decoy |-> NotRun]
       ELSE IF d = <<>>
       THEN [ret |-> "AssertionError: decoy", out |-> NoneDf, sf_df |-> NoneDf,
             target |-> Ran(t), decoy |-> Ran(d)]
       ELSE IF ~check_formula_uniqueness(df)
       THEN [ret |-> "AssertionError: not unique", out |-> NoneDf, sf_df |-> Df(df),
             target |-> Ran(t), decoy |-> Ran(d)]
       ELSE [ret |-> "ok", out |-> Df(df), sf_df |-> Df(df),
             target |-> Ran(t), decoy |-> Ran(d)]

\* sf_df without the assertion on the decoy rows
sf_df_no_decoy_assert(job_id, cached) ==
    IF cached.some
    THEN [ret |-> "ok", out |-> cached, sf_df |-> cached, target |-> NotRun, decoy |-> NotRun]
    ELSE LET t == target_sf_peaks_rs
             d == decoy_sf_peaks_rs(job_id)
             df == sort_values(t \o d)
         IN IF t = <<>>
            THEN [ret |-> "AssertionError: target", out |-> NoneDf, sf_df |-> NoneDf,
                  target |-> Ran(t), decoy |-> NotRun]
            ELSE IF ~check_formula_uniqueness(df)
            THEN [ret |-> "AssertionError: not unique", out |-> NoneDf, sf_df |-> Df(df),
                  target |-> Ran(t), decoy |-> Ran(d)]
            ELSE [ret |-> "ok", out |-> Df(df), sf_df |-> Df(df),
                  target |-> Ran(t), decoy |-> Ran(d)]

\* one access of the property sf_df: how it ends, the table it returns, the
\* value of _sf_df it leaves, and the queries it issued
sf_df_run(job_id, cached) ==
    IF cached.some
    THEN [ret |-> "ok", out |-> cached, sf_df |-> cached, target |-> NotRun, decoy |-> NotRun]
    ELSE LET t == target_sf_peaks_rs
             d == decoy_sf_peaks_rs(job_id)
             df == sort_values(t \o d)
         IN IF t = <<>>
            THEN [ret |-> "AssertionError: target", out |-> NoneDf, sf_df |-> NoneDf,
                  target |-> Ran(t), decoy |-> NotRun]
            ELSE IF d = <<>>
            THEN [ret |-> "AssertionError: decoy", out |-> NoneDf, sf_df |-> NoneDf,
                  target |-> Ran(t), decoy |-> Ran(d)]
            ELSE IF ~check_formula_uniqueness(df)
            \* _sf_df is assigned before _check_formula_uniqueness raises
            THEN [ret |-> "AssertionError: not unique", out |-> NoneDf, sf_df |-> Df(df),
                  target |-> Ran(t), decoy |-> Ran(d)]
            ELSE [ret |-> "ok", out |-> Df(df), sf_df |-> Df(df),
                  target |-> Ran(t), decoy |-> Ran(d)]

PeaksInit ==
    /\ theor_peaks \in SUBSET (SfIds \X Adducts)
    /\ target_decoy_add \in [JobIds -> [SfIds -> Adducts \cup {NoAdduct}]]
    /\ m_job_id = None
    /\ m_sf_df = NoneDf
    /\ m_ret = "new"
    /\ m_out = NoneDf
    /\ m_q = [target |-> NotRun, decoy |-> NotRun]

PeaksIdle ==
    /\ theor_peaks = {}
    /\ target_decoy_add = <<>>
    /\ m_job_id = None
    /\ m_sf_df = NoneDf
    /\ m_ret = "new"
    /\ m_out = NoneDf
    /\ m_q = [target |-> NotRun, decoy |-> NotRun]

\* MolecularDB.set_job_id(job_id)
SetJobId(job_id) ==
    /\ m_job_id' = job_id
    /\ UNCHANGED <<theor_peaks, target_decoy_add, m_sf_df, m_ret, m_out, m_q>>

\* one access of MolecularDB.sf_df
AccessSfDf ==
    LET r == sf_df_run(m_job_id, m_sf_df) IN
    /\ m_sf_df' = r.sf_df
    /\ m_ret' = r.ret
    /\ m_out' = r.out
    /\ m_q' = [target |-> r.target, decoy |-> r.decoy]
    /\ UNCHANGED <<theor_peaks, target_decoy_add, m_job_id>>

(***************************************************************************)
(* MolecularDB instances: _sf_df and _job_id of each (mol_db.py)           *)
(***************************************************************************)
Instances == {"m1", "m2"}

\* no call made yet
NoCall ==
    [op |-> "none", inst |-> None, ret |-> "new", out |-> NoneDf,
     target |-> NotRun, decoy |-> NotRun]

\* MolecularDB.__init__: _sf_df = None, _job_id = None
NewInstance == [job_id |-> None, sf_df |-> NoneDf]

\* the decoy adducts two jobs were assigned: job j1 has a decoy adduct for
\* every formula; job j2 has none for some and, for others, one that is also
\* a target adduct
MemoDecoys ==
    {f \in [JobIds -> [SfIds -> Adducts \cup {NoAdduct}]] :
        /\ \A sf \in SfIds : f["j1"][sf] = "+He"
        /\ \A sf \in SfIds : f["j2"][sf] \in {"+H", NoAdduct}}

MemoInit ==
    /\ theor_peaks \in SUBSET (SfIds \X Adducts)
    /\ target_decoy_add \in MemoDecoys
    /\ m_job_id = None
    /\ m_sf_df = NoneDf
    /\ m_ret = "new"
    /\ m_out = NoneDf
    /\ m_q = [target |-> NotRun, decoy |-> NotRun]
    /\ inst = [i \in Instances |-> NewInstance]
    /\ i_last = NoCall

MemoIdle ==
    /\ inst = [i \in Instances |-> NewInstance]
    /\ i_last = NoCall

\* MolecularDB.set_job_id(job_id) on instance i
InstSetJobId(i, job_id) ==
    /\ inst' = [inst EXCEPT ![i].job_id = job_id]
    /\ i_last' = [NoCall EXCEPT !.op = "set_job_id", !.inst = i, !.ret = "ok"]
    /\ UNCHANGED peak_vars

\* one access of MolecularDB.sf_df on instance i
InstAccessSfDf(i) ==
    LET r == sf_df_run(inst[i].job_id, inst[i].sf_df) IN
    /\ inst' = [inst EXCEPT ![i].sf_df = r.sf_df]
    /\ i_last' = [op |-> "sf_df", inst |-> i, ret |-> r.ret, out |-> r.out,
                  target |-> r.target, decoy |-> r.decoy]
    /\ UNCHANGED peak_vars

\* the peak generator stores the peaks of one more (formula, adduct) pair
StorePeaks(row) ==
    /\ row \notin theor_peaks
    /\ theor_peaks' = theor_peaks \cup {row}
    /\ i_last' = [NoCall EXCEPT !.op = "store_peaks", !.ret = "ok"]
    /\ UNCHANGED <<target_decoy_add, m_job_id, m_sf_df, m_ret, m_out, m_q, inst>>

(***************************************************************************)
(* Dataset (dataset.py)                                                    *)
(***************************************************************************)
\* DatasetStatus.NEW (NEW is a keyword of TLA+)
StatusNEW == "NEW"
QUEUED == "QUEUED"
STARTED == "STARTED"
FINISHED == "FINISHED"
FAILED == "FAILED"
INDEXING == "INDEXING"
DELETED == "DELETED"

DSIds == {"d1", "d2"}

\* json.dumps and the decoding of a json column on select
json_dumps(v) == [json |-> v]
json_loads(j) == j.json
\* datetime.isoformat(' ') and the decoding of a timestamp column on select
isoformat(dt) == <<dt.date, " ", dt.time>>
from_timestamp(t) == [date |-> t[1], time |-> t[3]]
\* str.lower() on the e-mail addresses of the model
lower(str) == IF str = "Ann@Lab.org" THEN "ann@lab.org" ELSE str

\* Dataset(id, ...): the attributes __init__ sets; status defaults to NEW
Dataset(id, metadata, config, mol_dbs) ==
    [id |-> id, name |-> "ds", input_path |-> "s3://in",
     upload_dt |-> [date |-> "2000-01-01", time |-> "00:00"],
     metadata |-> metadata, config |-> config, status |-> StatusNEW,
     is_public |-> True, mol_dbs |-> mol_dbs]

\* attribute lookup on an object: AttributeError when has_attr is false
has_attr(obj, a) == a \in DOMAIN obj

\* the condition asserted at the head of Dataset.save
save_assertion(ds) ==
    /\ ds.id # None /\ ds.id # ""
    /\ ds.name # None /\ ds.name # ""
    /\ ds.input_path # None /\ ds.input_path # ""
    /\ ds.upload_dt.date # None
    /\ ds.config # <<>>
    /\ ds.status # None /\ ds.status # ""
    /\ ds.is_public # None
    /\ ds.mol_dbs # <<>>

\* Dataset.is_stored
is_stored(db, ds) == db[ds.id] # NoRow

\* the row Dataset.save writes, without the id
ds_row(ds) ==
    [name |-> ds.name, input_path |-> ds.input_path, upload_dt |-> isoformat(ds.upload_dt),
     metadata |-> json_dumps(ds.metadata), config |-> json_dumps(ds.config),
     status |-> ds.status, is_public |-> ds.is_public, mol_dbs |-> ds.mol_dbs]

\* save that always inserts
Dataset_save_always_insert(ds, w, status_queue) ==
    IF ~save_assertion(ds)
    THEN [ret |-> "AssertionError", db |-> w.db, trace |-> w.trace]
    ELSE LET write == [e |-> "db.insert", sql |-> "DS_INSERT", ds_id |-> ds.id,
                       status |-> ds.status]
             sync == [e |-> "es.sync_dataset", ds_id |-> ds.id]
             pub == IF status_queue
                    THEN <<[e |-> "status_queue.publish",
                            msg |-> [ds_id |-> ds.id, status |-> ds.status]]>>
                    ELSE <<>>
         IN [ret |-> "ok",
             db |-> [w.db EXCEPT ![ds.id] = ds_row(ds)],
             trace |-> w.trace \o <<write, sync>> \o pub]

\* Dataset.save(db, es, status_queue) in the world w = [db, trace]
Dataset_save(ds, w, status_queue) ==
    IF ~save_assertion(ds)
    THEN [ret |-> "AssertionError", db |-> w.db, trace |-> w.trace]
    ELSE LET write == IF ~is_stored(w.db, ds)
                      THEN [e |-> "db.insert", sql |-> "DS_INSERT", ds_id |-> ds.id,
                            status |-> ds.status]
                      ELSE [e |-> "db.alter", sql |-> "DS_UPD", ds_id |-> ds.id,
                            status |-> ds.status]
             sync == [e |-> "es.sync_dataset", ds_id |-> ds.id]
             pub == IF status_queue
                    THEN <<[e |-> "status_queue.publish",
                            msg |-> [ds_id |-> ds.id, status |-> ds.status]]>>
                    ELSE <<>>
         IN [ret |-> "ok",
             db |-> [w.db EXCEPT ![ds.id] = ds_row(ds)],
             trace |-> w.trace \o <<write, sync>> \o pub]

\* Dataset.set_status(db, es, status_queue, status)
Dataset_set_status(ds, w, status_queue, status) ==
    Dataset_save([ds EXCEPT !.status = status], w, status_queue)

\* Dataset.load(db, ds_id): the object, or NoRow where UnknownDSID is raised
Dataset_load(db, ds_id) ==
    IF db[ds_id] = NoRow THEN NoRow
    ELSE LET r == db[ds_id]
         IN [id |-> ds_id, name |-> r.name, input_path |-> r.input_path,
             upload_dt |-> from_timestamp(r.upload_dt),
             metadata |-> json_loads(r.metadata), config |-> json_loads(r.config),
             status |-> r.status, is_public |-> r.is_public, mol_dbs |-> r.mol_dbs]

\* dict.update(other)
dict_update(d, other) ==
    [k \in (DOMAIN d) \cup (DOMAIN other) |-> IF k \in DOMAIN other THEN other[k] ELSE d[k]]

\* Dataset.to_queue_message
to_queue_message(ds) ==
    LET msg == [ds_id |-> ds.id, ds_name |-> ds.name, input_path |-> ds.input_path]
        email == dict_get(dict_get(dict_get(ds.metadata, "Submitted_By", <<>>),
                                   "Submitter", <<>>), "Email", None)
    IN IF email # None /\ email # ""
       THEN dict_update(msg, [user_email |-> lower(email)])
       ELSE msg

(***************************************************************************)
(* SMapiDatasetManager: add, delete, update (dataset_manager.py)           *)
(***************************************************************************)
ADD == "ADD"
UPDATE == "UPDATE"
DELETE == "DELETE"

LOW == 0
STANDARD == 1
HIGH == 2
DEFAULT == LOW
Priorities == {LOW, STANDARD, HIGH}

\* the configs and metadata documents the callers of the model hand in
CfgAX == [isotope_generation |-> "A", databases |-> <<[name |-> "X"]>>]
CfgAXY == [isotope_generation |-> "A", databases |-> <<[name |-> "X"], [name |-> "Y"]>>]
CfgBX == [isotope_generation |-> "B", databases |-> <<[name |-> "X"]>>]
ApiConfigs == {CfgAX, CfgAXY, CfgBX}
MetaEmpty == <<>>
MetaEmail == [Submitted_By |-> [Submitter |-> [Email |-> "Ann@Lab.org"]]]
ApiMetas == {MetaEmpty, MetaEmail}
\* the datasets the callers hand in: every id, metadata and config with mol_dbs
\* given, and one dataset whose mol_dbs was left at the constructor's default
DsInputs ==
    {Dataset(id, m, c, <<1>>) : id \in DSIds, m \in ApiMetas, c \in ApiConfigs}
    \cup {Dataset("d1", MetaEmpty, CfgAX, <<>>)}

\* an outcome without effects
Raise(exc, db) == [ret |-> exc, db |-> db, trace |-> <<>>]

\* _post_sm_msg(ds, action, priority, **kwargs)
post_sm_msg(ds, action, priority, kwargs, db) ==
    LET s == Dataset_set_status(ds, [db |-> db, trace |-> <<>>], has_status_queue, QUEUED)
    IN IF s.ret # "ok" THEN s
       ELSE IF mode = "queue"
       THEN LET msg == dict_update(dict_update(to_queue_message(ds), [action |-> action]),
                                   kwargs)
            IN [s EXCEPT !.trace = s.trace \o <<[e |-> "action_queue.publish",
                                                 msg |-> msg, priority |-> priority]>>]
       ELSE s

\* add that posts the message whether or not the dataset is stored
SMapi_add_unchecked(ds, del_first, priority, db) ==
    post_sm_msg(ds, ADD, priority, [del_first |-> del_first], db)

\* SMapiDatasetManager.add(ds, del_first, priority)
SMapi_add(ds, del_first, priority, db) ==
    IF ~del_first /\ is_stored(db, ds)
    THEN Raise("DSIDExists", db)
    ELSE post_sm_msg(ds, ADD, priority, [del_first |-> del_first], db)

\* delete that posts at the default priority
SMapi_delete_default(ds, del_raw_data, db) ==
    post_sm_msg(ds, DELETE, DEFAULT, <<>>, db)

\* SMapiDatasetManager.delete(ds, del_raw_data)
SMapi_delete(ds, del_raw_data, db) ==
    post_sm_msg(ds, DELETE, HIGH, <<>>, db)

\* SMapiDatasetManager.update(ds, priority)
SMapi_update(ds, priority, db) ==
    LET old_ds == Dataset_load(db, ds.id)
    IN IF old_ds = NoRow THEN Raise("UnknownDSID", db)
       ELSE LET config_diff == compare_configs(old_ds.config, ds.config)
            IN \* meta_diff = old_ds.meta != ds.meta
               IF ~has_attr(old_ds, "meta") \/ ~has_attr(ds, "meta")
               THEN Raise("AttributeError", db)
               ELSE LET meta_diff == old_ds.meta # ds.meta
                    IN IF config_diff = INSTR_PARAMS_DIFF
                       THEN post_sm_msg(ds, ADD, priority, [del_first |-> TRUE], db)
                       ELSE IF config_diff = NEW_MOL_DB
                       THEN post_sm_msg(ds, ADD, priority, <<>>, db)
                       ELSE IF config_diff = EQUAL /\ meta_diff
                       THEN post_sm_msg(ds, UPDATE, HIGH, <<>>, db)
                       ELSE [ret |-> "ok", db |-> db, trace |-> <<>>]

\* rows the other parts of the engine left in the dataset table
InitStatuses == {StatusNEW, FINISHED, FAILED}
InitRows ==
    {ds_row([Dataset("d1", MetaEmpty, CfgAX, <<1>>) EXCEPT !.status = st]) : st \in InitStatuses}

ApiInit ==
    /\ mode \in {"queue", "local"}
    /\ has_status_queue \in BOOLEAN
    /\ db_dataset \in [DSIds -> {NoRow} \cup InitRows]
    /\ call = [op |-> "none"]
    /\ ret = "ok"
    /\ trace = <<>>

ApiIdle ==
    /\ mode = "queue"
    /\ has_status_queue = TRUE
    /\ db_dataset = [d \in DSIds |-> NoRow]
    /\ call = [op |-> "none"]
    /\ ret = "ok"
    /\ trace = <<>>

ApiDone(r) ==
    /\ ret' = r.ret
    /\ trace' = r.trace
    /\ db_dataset' = r.db
    /\ UNCHANGED <<mode, has_status_queue>>

\* a caller invokes SMapiDatasetManager.add
ApiAdd(ds, del_first, priority) ==
    /\ call' = [op |-> "add", ds |-> ds, del_first |-> del_first, priority |-> priority]
    /\ ApiDone(SMapi_add(ds, del_first, priority, db_dataset))

\* a caller invokes SMapiDatasetManager.delete
ApiDelete(ds, del_raw_data) ==
    /\ call' = [op |-> "delete", ds |-> ds, del_raw_data |-> del_raw_data]
    /\ ApiDone(SMapi_delete(ds, del_raw_data, db_dataset))

\* a caller invokes SMapiDatasetManager.update
ApiUpdate(ds, priority) ==
    /\ call' = [op |-> "update", ds |-> ds, priority |-> priority]
    /\ ApiDone(SMapi_update(ds, priority, db_dataset))

(***************************************************************************)
(* SMapiDatasetManager: optical images (dataset_manager.py)                *)
(***************************************************************************)
\* longest zoom_levels list handed to add_optical_image
MaxZooms == 2
\* ids the image store hands out for tiles: 1..MaxImgId
MaxImgId == 3

Zooms == {1, 2}
ZoomLists == UNION {[1..n -> Zooms] : n \in 0..MaxZooms}
RawIds == {"r1", "r2"}
Transforms == {"t1"}

\* the columns optical_image, transform of a dataset row
RawCols(img_id, transform) == [optical_image |-> img_id, transform |-> transform]

\* the state the optical image calls act on
OptWorld ==
    [o_ds |-> o_ds, optical_image |-> optical_image, raw_store |-> raw_store,
     tile_store |-> tile_store, next_img_id |-> next_img_id,
     deleted |-> [raw |-> <<>>, tiles |-> <<>>], posted |-> <<>>, ret |-> "ok"]

\* the ids of a set in ascending order
RECURSIVE Ascending(_)
Ascending(S) ==
    IF S = {} THEN <<>>
    ELSE LET m == CHOOSE x \in S : \A y \in S : x <= y
         IN <<m>> \o Ascending(S \ {m})

\* Dataset.get_ion_img_storage_type(db): the storage type of the dataset's
\* images, UnknownDSID for a dataset without a row
get_ion_img_storage_type(w, ds_id) ==
    IF w.o_ds[ds_id] = NoRow THEN "UnknownDSID" ELSE "fs"

\* SELECT id FROM optical_image WHERE ds_id = %s
sel_optical_image(w, ds_id) == {r \in w.optical_image : r[2] = ds_id}

\* _add_raw_optical_image(ds, img_id, transform)
add_raw_optical_image(w, ds_id, img_id, transform) ==
    LET row == w.o_ds[ds_id]
    IN IF row = NoRow THEN w
       ELSE LET old_img_id == row.optical_image
                set == [w EXCEPT !.o_ds[ds_id] = RawCols(img_id, transform)]
            IN IF old_img_id # None /\ old_img_id # img_id
               THEN IF old_img_id \notin w.raw_store /\ img_store_strict
                    THEN [w EXCEPT !.ret = "ImageStoreError"]
                    ELSE [set EXCEPT !.raw_store = @ \ {old_img_id},
                                     !.deleted.raw = Append(@, old_img_id)]
               ELSE set

\* _add_zoom_optical_images that inserts the new rows before it removes the
\* tiles it selects
add_zoom_optical_images_insert_first(w, ds_id, img_id, transform, zoom_levels) ==
    IF ds_id \notin o_jobs THEN [w EXCEPT !.ret = "IndexError"]
    ELSE IF get_ion_img_storage_type(w, ds_id) = "UnknownDSID"
    THEN [w EXCEPT !.ret = "UnknownDSID"]
    ELSE IF img_id \notin w.raw_store THEN [w EXCEPT !.ret = "ImageStoreError"]
    ELSE LET ids == [k \in DOMAIN zoom_levels |-> w.next_img_id + k - 1]
             rows == {<<ids[k], ds_id, zoom_levels[k]>> : k \in DOMAIN zoom_levels}
             inserted == w.optical_image \cup rows
             sel == {r \in inserted : r[2] = ds_id}
         IN [w EXCEPT !.posted = ids,
                      !.next_img_id = @ + Len(zoom_levels),
                      !.tile_store = (@ \cup {ids[k] : k \in DOMAIN ids})
                                         \ {r[1] : r \in sel},
                      !.deleted.tiles = @ \o Ascending({r[1] : r \in sel}),
                      !.optical_image = rows]

\* _add_zoom_optical_images(ds, img_id, transform, zoom_levels)
add_zoom_optical_images(w, ds_id, img_id, transform, zoom_levels) ==
    \* _annotation_image_shape: select(...)[0][0][0], then the storage type
    IF ds_id \notin o_jobs THEN [w EXCEPT !.ret = "IndexError"]
    ELSE IF get_ion_img_storage_type(w, ds_id) = "UnknownDSID"
    THEN [w EXCEPT !.ret = "UnknownDSID"]
    \* get_image_by_id('fs', 'raw_optical_image', img_id)
    ELSE IF img_id \notin w.raw_store THEN [w EXCEPT !.ret = "ImageStoreError"]
    ELSE LET ids == [k \in DOMAIN zoom_levels |-> w.next_img_id + k - 1]
             rows == {<<ids[k], ds_id, zoom_levels[k]>> : k \in DOMAIN zoom_levels}
             sel == sel_optical_image(w, ds_id)
         IN [w EXCEPT !.posted = ids,
                      !.next_img_id = @ + Len(zoom_levels),
                      !.tile_store = (@ \cup {ids[k] : k \in DOMAIN ids})
                                         \ {r[1] : r \in sel},
                      !.deleted.tiles = @ \o Ascending({r[1] : r \in sel}),
                      !.optical_image = (@ \ sel) \cup rows]

\* add_optical_image(ds, img_id, transform, zoom_levels)
add_optical_image(w, ds_id, img_id, transform, zoom_levels) ==
    LET raw == add_raw_optical_image(w, ds_id, img_id, transform)
    IN IF raw.ret # "ok" THEN raw
       ELSE add_zoom_optical_images(raw, ds_id, img_id, transform, zoom_levels)

\* del_optical_image that leaves the columns optical_image, transform as they are
del_optical_image_keeps_raw(w, ds_id) ==
    LET row == w.o_ds[ds_id]
        sel == sel_optical_image(w, ds_id)
    IN [w EXCEPT !.tile_store = @ \ {r[1] : r \in sel},
                 !.deleted.tiles = @ \o Ascending({r[1] : r \in sel}),
                 !.optical_image = @ \ sel]

\* del_optical_image(ds)
del_optical_image(w, ds_id) ==
    LET row == w.o_ds[ds_id]
        has_raw == row # NoRow /\ row.optical_image # None
        sel == sel_optical_image(w, ds_id)
    IN IF has_raw /\ row.optical_image \notin w.raw_store /\ img_store_strict
       THEN [w EXCEPT !.ret = "ImageStoreError"]
       ELSE [w EXCEPT !.raw_store = IF has_raw THEN @ \ {row.optical_image} ELSE @,
                      !.deleted.raw = IF has_raw THEN Append(@, row.optical_image) ELSE @,
                      !.tile_store = @ \ {r[1] : r \in sel},
                      !.deleted.tiles = @ \o Ascending({r[1] : r \in sel}),
                      !.o_ds[ds_id] = IF row = NoRow THEN @ ELSE RawCols(None, None),
                      !.optical_image = @ \ sel]

OptInit ==
    /\ o_ds \in [DSIds -> {NoRow, RawCols(None, None)}]
    /\ o_jobs \in SUBSET {d \in DSIds : o_ds[d] # NoRow}
    /\ optical_image = {}
    /\ raw_store = RawIds
    /\ tile_store = {}
    /\ next_img_id = 1
    /\ o_call = [op |-> "none"]
    /\ o_ret = "ok"
    /\ o_deleted = [raw |-> <<>>, tiles |-> <<>>]
    /\ o_posted = <<>>
    /\ img_store_strict \in BOOLEAN

OptDone(w) ==
    /\ o_ds' = w.o_ds
    /\ optical_image' = w.optical_image
    /\ raw_store' = w.raw_store
    /\ tile_store' = w.tile_store
    /\ next_img_id' = w.next_img_id
    /\ o_ret' = w.ret
    /\ o_deleted' = w.deleted
    /\ o_posted' = w.posted
    /\ UNCHANGED <<o_jobs, img_store_strict>>

\* a caller invokes add_optical_image
AddOpticalImage(ds_id, img_id, transform, zoom_levels) ==
    /\ next_img_id + Len(zoom_levels) - 1 <= MaxImgId
    /\ o_call' = [op |-> "add_optical_image", ds |-> ds_id, img_id |-> img_id,
                  transform |-> transform, zoom_levels |-> zoom_levels]
    /\ OptDone(add_optical_image(OptWorld, ds_id, img_id, transform, zoom_levels))

\* a caller invokes del_optical_image
DelOpticalImage(ds_id) ==
    /\ o_call' = [op |-> "del_optical_image", ds |-> ds_id]
    /\ OptDone(del_optical_image(OptWorld, ds_id))

(***************************************************************************)
(* Dataset.save and Dataset.set_status called directly (dataset.py)        *)
(***************************************************************************)
\* a dataset with every field given
FullDs(id) == Dataset(id, MetaEmail, CfgAX, <<1>>)
\* the fields of a dataset object
DsFields == {"id", "name", "input_path", "upload_dt", "metadata", "config", "status",
             "is_public", "mol_dbs"}
\* the dataset with the field left at None (a timestamp None has no date;
\* config and mol_dbs None are falsy like the empty dict and the empty list)
Without(ds, field) ==
    IF field = "upload_dt" THEN [ds EXCEPT !.upload_dt = [date |-> None, time |-> None]]
    ELSE IF field \in {"config", "mol_dbs"} THEN [ds EXCEPT ![field] = <<>>]
    ELSE IF field = "metadata" THEN [ds EXCEPT !.metadata = NoneDict]
    ELSE [ds EXCEPT ![field] = None]

\* the datasets save is called on: complete ones, and ones lacking one field
SaveInputs ==
    {FullDs(id) : id \in DSIds}
    \cup {Dataset("d1", MetaEmpty, CfgAXY, <<1>>)}
    \cup {Without(FullDs("d1"), f) : f \in DsFields}

\* the statuses handed to set_status; None is its default
SetStatuses == {QUEUED, FINISHED, None}

SaveInit ==
    /\ mode = "queue"
    /\ has_status_queue \in BOOLEAN
    /\ db_dataset \in [DSIds -> {NoRow} \cup InitRows]
    /\ call = [op |-> "none"]
    /\ ret = "ok"
    /\ trace = <<>>

\* a caller invokes ds.save(db, es, status_queue)
SaveCall(ds, status_queue) ==
    /\ call' = [op |-> "save", ds |-> ds, status_queue |-> status_queue]
    /\ ApiDone(Dataset_save(ds, [db |-> db_dataset, trace |-> <<>>], status_queue))

\* a caller invokes ds.set_status(db, es, status_queue, status)
SetStatusCall(ds, status_queue, status) ==
    /\ call' = [op |-> "set_status", ds |-> ds, status |-> status,
                status_queue |-> status_queue]
    /\ ApiDone(Dataset_set_status(ds, [db |-> db_dataset, trace |-> <<>>],
                                  status_queue, status))

(***************************************************************************)
(* SMDaemonDatasetManager: add, update, delete (dataset_manager.py)        *)
(***************************************************************************)
\* ids of the rows table job may hold
JobRowIds == {1, 2}
MolDbIds == {"db1", "db2"}
\* MolDBServiceWrapper.find_db_by_id(id): the database document
find_db_by_id(id) == [id |-> id, name |-> IF id = "db1" THEN "X" ELSE "Y"]

\* a row of table job with the iso image of its metrics row
JobRow(id, ds_id, db_id) == [id |-> id, ds_id |-> ds_id, db_id |-> db_id, img |-> id]
\* a search-index entry of one job of a dataset
EsEntry(ds_id, mol_db, iso_gen) == [ds_id |-> ds_id, mol_db |-> mol_db, iso_gen |-> iso_gen]

\* the collaborator call that fails during one dispatch, if any
DeleteFaults == {"none", "img_store.delete_image_by_id", "es.delete_ds", "db.alter",
                 "del_input_data"}
UpdateFaults == {"none", "es.delete_ds", "db.alter", "es.index_ds"}
AddFaults(del_first) ==
    IF del_first THEN (DeleteFaults \ {"del_input_data"}) \cup {"run"} ELSE {"none", "run"}

\* the state SMDaemonDatasetManager acts on
DmnWorld ==
    [db |-> db_dataset, job |-> job, es |-> es_index, imgs |-> iso_images,
     input |-> input_data, trace |-> <<>>, ret |-> "ok"]

Fail(w, exc) == [w EXCEPT !.ret = exc]
Ev(w, ev) == [w EXCEPT !.trace = Append(@, ev)]

\* ds.save(db, es, status_queue) and ds.set_status(...) on that state
dmn_save(ds, w, status_queue) ==
    LET r == Dataset_save(ds, [db |-> w.db, trace |-> w.trace], status_queue)
    IN [w EXCEPT !.ret = r.ret, !.db = r.db, !.trace = r.trace]
dmn_set_status(ds, w, status_queue, status) ==
    dmn_save([ds EXCEPT !.status = status], w, status_queue)

\* IMG_URLS_BY_ID_SEL: image ids of the jobs of a dataset that has a row
img_urls_by_id_sel(w, ds_id) ==
    IF w.db[ds_id] = NoRow THEN {} ELSE {j.img : j \in {x \in w.job : x.ds_id = ds_id}}

\* _del_iso_images without the except clause: UnknownDSID reaches the caller
del_iso_images_unguarded(w, ds, fault) ==
    IF get_ion_img_storage_type([o_ds |-> w.db], ds.id) = "UnknownDSID"
    THEN Fail(w, "UnknownDSID")
    ELSE LET ids == img_urls_by_id_sel(w, ds.id)
         IN IF ids # {} /\ fault = "img_store.delete_image_by_id"
            THEN Fail(w, "ImageStoreError")
            ELSE [w EXCEPT !.imgs = @ \ ids,
                           !.trace = @ \o [i \in 1..Cardinality(ids) |->
                               [e |-> "img_store.delete_image_by_id",
                                img_id |-> Ascending(ids)[i]]]]

\* _del_iso_images(ds)
del_iso_images(w, ds, fault) ==
    IF get_ion_img_storage_type([o_ds |-> w.db], ds.id) = "UnknownDSID"
    THEN Ev(w, [e |-> "logger.warning", ds_id |-> ds.id])
    ELSE LET ids == img_urls_by_id_sel(w, ds.id)
         IN IF ids # {} /\ fault = "img_store.delete_image_by_id"
            THEN Fail(w, "ImageStoreError")
            ELSE [w EXCEPT !.imgs = @ \ ids,
                           !.trace = @ \o [i \in 1..Cardinality(ids) |->
                               [e |-> "img_store.delete_image_by_id",
                                img_id |-> Ascending(ids)[i]]]]

\* SMDaemonDatasetManager.delete(ds, del_raw_data)
Dmn_delete(w, ds, del_raw_data, fault) ==
    LET a == del_iso_images(w, ds, fault)
    IN IF a.ret # "ok" THEN a
       ELSE IF fault = "es.delete_ds" THEN Fail(a, "ESError")
       ELSE LET b == Ev([a EXCEPT !.es = {x \in @ : x.ds_id # ds.id}],
                        [e |-> "es.delete_ds", ds_id |-> ds.id])
            IN IF fault = "db.alter" THEN Fail(b, "DBError")
               ELSE LET c == Ev([b EXCEPT !.db[ds.id] = NoRow],
                                [e |-> "db.alter", sql |-> "DELETE FROM dataset",
                                 ds_id |-> ds.id])
                        d == IF ~del_raw_data THEN c
                             ELSE IF fault = "del_input_data" THEN Fail(c, "WorkDirError")
                             ELSE Ev([c EXCEPT !.input = @ \ {ds.input_path}],
                                     [e |-> "del_input_data", path |-> ds.input_path])
                    IN IF d.ret # "ok" THEN d
                       ELSE IF mode = "queue"
                       THEN Ev(d, [e |-> "status_queue.publish",
                                   msg |-> [ds_id |-> ds.id, status |-> DELETED]])
                       ELSE d

\* add that persists the dataset before it runs the delete
Dmn_add_save_first(w, ds, del_first, fault) ==
    LET a == dmn_save(ds, w, FALSE)
    IN IF a.ret # "ok" THEN a
       ELSE LET b == IF del_first THEN Dmn_delete(a, ds, FALSE, fault) ELSE a
            IN IF b.ret # "ok" THEN b
               ELSE LET c == Ev(b, [e |-> "search_job.run", ds_id |-> ds.id])
                    IN IF fault = "run" THEN Fail(c, "JobError") ELSE c

\* add that hands the status queue to save
Dmn_add_notifies(w, ds, del_first, fault) ==
    LET a == IF del_first THEN Dmn_delete(w, ds, FALSE, fault) ELSE w
    IN IF a.ret # "ok" THEN a
       ELSE LET b == dmn_save(ds, a, has_status_queue)
            IN IF b.ret # "ok" THEN b
               ELSE LET c == Ev(b, [e |-> "search_job.run", ds_id |-> ds.id])
                    IN IF fault = "run" THEN Fail(c, "JobError") ELSE c

\* SMDaemonDatasetManager.add(ds, search_job_factory, del_first)
Dmn_add(w, ds, del_first, fault) ==
    LET a == IF del_first THEN Dmn_delete(w, ds, FALSE, fault) ELSE w
    IN IF a.ret # "ok" THEN a
       ELSE LET b == dmn_save(ds, a, FALSE)
            IN IF b.ret # "ok" THEN b
               ELSE LET c == Ev(b, [e |-> "search_job.run", ds_id |-> ds.id])
                    IN IF fault = "run" THEN Fail(c, "JobError") ELSE c

\* MolecularDB.__init__(id=None, name=None, version=None, ds_config=None)
\* called with the keyword arguments kwargs: how the construction ends
MolecularDB_init(kwargs) ==
    IF ~(DOMAIN kwargs \subseteq {"id", "name", "version", "ds_config"}) THEN "TypeError"
    ELSE IF dict_get(kwargs, "ds_config", <<>>) = <<>> THEN "AssertionError"
    ELSE IF dict_get(kwargs, "id", None) = None /\ dict_get(kwargs, "name", None) = None
    THEN "Exception"
    ELSE "ok"

\* [d['name'] for d in ds.config['databases']]
moldb_names(ds) == {ds.config.databases[i].name : i \in DOMAIN ds.config.databases}

\* the rows of SELECT id, db_id FROM job WHERE ds_id = %s in every order the
\* database may return them
finished_job_rows(w, ds_id) ==
    LET S == {j \in w.job : j.ds_id = ds_id}
    IN {f \in [1..Cardinality(S) -> S] : \A i, k \in DOMAIN f : f[i] = f[k] => i = k}

\* the loop of update over the rows of _finished_job_moldbs
RECURSIVE reindex_jobs(_, _, _, _)
reindex_jobs(w, ds, rows, fault) ==
    IF rows = <<>> THEN w
    ELSE LET job_id == Head(rows).id
             mol_db_name == find_db_by_id(Head(rows).db_id).name
             step ==
                 IF mol_db_name \notin moldb_names(ds)
                 THEN IF fault = "db.alter" THEN Fail(w, "DBError")
                      ELSE Ev([w EXCEPT !.job = {j \in @ : j.id # job_id}],
                              [e |-> "db.alter", sql |-> "DELETE FROM job",
                               job_id |-> job_id])
                 ELSE LET mol_db == MolecularDB_init(
                              [name |-> mol_db_name,
                               iso_gen_config |-> ds.config.isotope_generation])
                      IN IF mol_db # "ok" THEN Fail(w, mol_db)
                         ELSE IF fault = "es.index_ds" THEN Fail(w, "ESError")
                         ELSE Ev([w EXCEPT !.es = @ \cup
                                      {EsEntry(ds.id, mol_db_name,
                                               ds.config.isotope_generation)}],
                                 [e |-> "es.index_ds", ds_id |-> ds.id,
                                  job_id |-> job_id, mol_db |-> mol_db_name,
                                  iso_gen |-> ds.config.isotope_generation])
         IN IF step.ret # "ok" THEN step
            ELSE reindex_jobs(step, ds, Tail(rows), fault)

\* update that sets FINISHED before it works through the jobs
Dmn_update_finished_first(w, ds, rows, fault) ==
    LET a == dmn_set_status(ds, w, has_status_queue, INDEXING)
    IN IF a.ret # "ok" THEN a
       ELSE IF fault = "es.delete_ds" THEN Fail(a, "ESError")
       ELSE LET b == Ev([a EXCEPT !.es = {x \in @ : x.ds_id # ds.id}],
                        [e |-> "es.delete_ds", ds_id |-> ds.id])
                c == dmn_set_status(ds, b, has_status_queue, FINISHED)
            IN reindex_jobs(c, ds, rows, fault)

\* update that works through the jobs before it clears the index
Dmn_update_jobs_first(w, ds, rows, fault) ==
    LET a == dmn_set_status(ds, w, has_status_queue, INDEXING)
    IN IF a.ret # "ok" THEN a
       ELSE LET c == reindex_jobs(a, ds, rows, fault)
            IN IF c.ret # "ok" THEN c
               ELSE IF fault = "es.delete_ds" THEN Fail(c, "ESError")
               ELSE dmn_set_status(ds,
                        Ev([c EXCEPT !.es = {x \in @ : x.ds_id # ds.id}],
                           [e |-> "es.delete_ds", ds_id |-> ds.id]),
                        has_status_queue, FINISHED)

\* SMDaemonDatasetManager.update(ds); rows is the result of the job select
Dmn_update(w, ds, rows, fault) ==
    LET a == dmn_set_status(ds, w, has_status_queue, INDEXING)
    IN IF a.ret # "ok" THEN a
       ELSE IF fault = "es.delete_ds" THEN Fail(a, "ESError")
       ELSE LET b == Ev([a EXCEPT !.es = {x \in @ : x.ds_id # ds.id}],
                        [e |-> "es.delete_ds", ds_id |-> ds.id])
                c == reindex_jobs(b, ds, rows, fault)
            IN IF c.ret # "ok" THEN c
               ELSE dmn_set_status(ds, c, has_status_queue, FINISHED)

\* update whose process dies after INDEXING is persisted (at = 0), or after
\* the index is cleared and the first at - 1 rows of the job select are handled
Dmn_update_crash(w, ds, rows, at) ==
    LET a == dmn_set_status(ds, w, has_status_queue, INDEXING)
    IN IF a.ret # "ok" THEN a
       ELSE IF at = 0 THEN Fail(a, "Crash")
       ELSE LET b == Ev([a EXCEPT !.es = {x \in @ : x.ds_id # ds.id}],
                        [e |-> "es.delete_ds", ds_id |-> ds.id])
                c == reindex_jobs(b, ds, SubSeq(rows, 1, at - 1), "none")
            IN IF c.ret # "ok" THEN c ELSE Fail(c, "Crash")

\* the datasets handed to the daemon: every id and config, and one dataset
\* whose mol_dbs was left at the constructor's default
DmnDsInputs ==
    {Dataset(id, MetaEmpty, c, <<1>>) : id \in DSIds, c \in ApiConfigs}
    \cup {Dataset("d1", MetaEmpty, CfgAX, <<>>)}

\* the row of a dataset annotated earlier
DmnRow == ds_row([Dataset("d1", MetaEmpty, CfgAX, <<1>>) EXCEPT !.status = FINISHED])

\* tables, index and stores as earlier runs left them; a manager in mode
\* 'queue' has its status queue (delete publishes to it unguarded)
DmnInit ==
    /\ mode \in {"queue", "local"}
    /\ has_status_queue \in BOOLEAN
    /\ mode = "queue" => has_status_queue
    /\ db_dataset \in [DSIds -> {NoRow, DmnRow}]
    /\ \E f \in [JobRowIds -> {<<None, None>>} \cup (DSIds \X MolDbIds)] :
           job = {JobRow(i, f[i][1], f[i][2]) : i \in {k \in JobRowIds : f[k][1] # None}}
    /\ es_index = {EsEntry(j.ds_id, find_db_by_id(j.db_id).name, "A") : j \in job}
    /\ iso_images = {j.img : j \in job}
    /\ input_data = {"s3://in"}
    /\ call = [op |-> "none"]
    /\ ret = "ok"
    /\ trace = <<>>

DmnDone(w) ==
    /\ ret' = w.ret
    /\ trace' = w.trace
    /\ db_dataset' = w.db
    /\ job' = w.job
    /\ es_index' = w.es
    /\ iso_images' = w.imgs
    /\ input_data' = w.input
    /\ UNCHANGED <<mode, has_status_queue>>

\* the daemon runs add; a behaviour is one dispatch from a state that earlier
\* dispatches left
DmnAdd(ds, del_first, fault) ==
    /\ call.op = "none"
    /\ call' = [op |-> "add", ds |-> ds, del_first |-> del_first, fault |-> fault]
    /\ DmnDone(Dmn_add(DmnWorld, ds, del_first, fault))

\* the daemon runs update
DmnUpdate(ds, rows, fault) ==
    /\ call.op = "none"
    /\ call' = [op |-> "update", ds |-> ds, rows |-> rows, fault |-> fault]
    /\ DmnDone(Dmn_update(DmnWorld, ds, rows, fault))

\* the daemon runs update and its process dies on the way
DmnUpdateCrash(ds, rows, at) ==
    /\ call.op = "none"
    /\ call' = [op |-> "update", ds |-> ds, rows |-> rows, fault |-> "crash", at |-> at]
    /\ DmnDone(Dmn_update_crash(DmnWorld, ds, rows, at))

\* the daemon runs delete
DmnDelete(ds, del_raw_data, fault) ==
    /\ call.op = "none"
    /\ call' = [op |-> "delete", ds |-> ds, del_raw_data |-> del_raw_data,
                fault |-> fault]
    /\ DmnDone(Dmn_delete(DmnWorld, ds, del_raw_data, fault))

(***************************************************************************)
(* MolecularDB.sfs: the formulas of a molecular database (mol_db.py)       *)
(***************************************************************************)
\* MolDBServiceWrapper.fetch_db_sfs(db_id): the formulas the service lists
fetch_db_sfs(db_id) == IF db_id = "db1" THEN <<"C6H12O6", "H2O">> ELSE <<"H2O">>

\* SF_COUNT: SELECT count(*) FROM sum_formula WHERE db_id = %s
sf_count(tbl, db_id) == Cardinality({r \in tbl : r.db_id = db_id})

\* the value the serial column id takes for the k-th row inserted
next_serial(tbl, k) ==
    k + (IF tbl = {} THEN 0 ELSE CHOOSE n \in {r.id : r \in tbl} : \A r \in tbl : r.id <= n)

\* SF_INS: INSERT INTO sum_formula (db_id, sf) values (%s, %s), one row for
\* each formula
sf_ins(tbl, db_id, sfs) ==
    tbl \cup {[id |-> next_serial(tbl, k), db_id |-> db_id, sf |-> sfs[k]] : k \in DOMAIN sfs}

\* SF_SELECT: SELECT id, sf FROM sum_formula WHERE db_id = %s
sf_select(tbl, db_id) == {<<r.id, r.sf>> : r \in {x \in tbl : x.db_id = db_id}}

\* _sfs: None, or the OrderedDict of the selected rows
NoneSfs == [some |-> FALSE, rows |-> {}]
\* `not self._sfs`: None or an empty dict
not_sfs(c) == ~c.some \/ c.rows = {}

\* an instance for the database that is not reading sfs
SfsInstance(db_id) ==
    [db_id |-> db_id, pc |-> "idle", fetched |-> <<>>, count |-> 0, sfs |-> NoneSfs]

\* the table after earlier runs inserted the formulas of the databases dbs
StoredSfs(dbs) ==
    LET t1 == IF "db1" \in dbs THEN sf_ins({}, "db1", fetch_db_sfs("db1")) ELSE {}
    IN IF "db2" \in dbs THEN sf_ins(t1, "db2", fetch_db_sfs("db2")) ELSE t1

SfsInit ==
    /\ sum_formula \in {StoredSfs(dbs) : dbs \in SUBSET MolDbIds}
    /\ sfs_run \in [Instances -> {SfsInstance(db) : db \in MolDbIds}]

\* sfs, line 1 and 2: the cache is empty, the formulas are fetched
SfsFetch(i) ==
    /\ sfs_run[i].pc = "idle"
    /\ not_sfs(sfs_run[i].sfs)
    /\ sfs_run' = [sfs_run EXCEPT ![i].pc = "fetched",
                                  ![i].fetched = fetch_db_sfs(sfs_run[i].db_id)]
    /\ UNCHANGED sum_formula

\* sfs, line 3: the rows of the database are counted
SfsCount(i) ==
    /\ sfs_run[i].pc = "fetched"
    /\ sfs_run' = [sfs_run EXCEPT ![i].pc = "counted",
                                  ![i].count = sf_count(sum_formula, sfs_run[i].db_id)]
    /\ UNCHANGED sum_formula

\* sfs, lines 4 and 5: the count was 0, the formulas are inserted
SfsInsert(i) ==
    /\ sfs_run[i].pc = "counted"
    /\ sfs_run[i].count = 0
    /\ sum_formula' = sf_ins(sum_formula, sfs_run[i].db_id, sfs_run[i].fetched)
    /\ sfs_run' = [sfs_run EXCEPT ![i].pc = "inserted"]

\* sfs, line 6: the rows are selected and cached, the access returns
SfsSelect(i) ==
    /\ \/ sfs_run[i].pc = "inserted"
       \/ sfs_run[i].pc = "counted" /\ sfs_run[i].count # 0
    /\ sfs_run' = [sfs_run EXCEPT
                      ![i].pc = "idle",
                      ![i].sfs = [some |-> TRUE,
                                  rows |-> sf_select(sum_formula, sfs_run[i].db_id)]]
    /\ UNCHANGED sum_formula

\* an instance that has its formulas is dropped and a new one constructed
SfsNewInstance(i, db_id) ==
    /\ sfs_run[i].pc = "idle"
    /\ ~not_sfs(sfs_run[i].sfs)
    /\ sfs_run' = [sfs_run EXCEPT ![i] = SfsInstance(db_id)]
    /\ UNCHANGED sum_formula

(***************************************************************************)
(* The action queue: a Queued call publishes, process consumes             *)
(***************************************************************************)
\* messages the action queue may hold at once
MaxQueue == 2

\* the keys of a message that name the dataset and the action; the others
\* are the extras, handed to process as keyword arguments
MsgKeys == {"ds_id", "ds_name", "input_path", "user_email", "action"}
msg_extras(msg) == [k \in (DOMAIN msg) \ MsgKeys |-> msg[k]]

\* SMDaemonDatasetManager.process(ds, action, **kwargs); rows is the result of
\* the job select of update
Dmn_process(w, ds, action, kwargs, rows) ==
    IF action = ADD
    THEN Dmn_add(w, ds, dict_get(kwargs, "del_first", FALSE), "none")
    ELSE IF action = UPDATE
    THEN Dmn_update(w, ds, rows, "none")
    ELSE IF action = DELETE
    THEN Dmn_delete(w, ds, dict_get(kwargs, "del_raw_data", FALSE), "none")
    ELSE Fail(w, "Exception: Wrong action")

\* the action_queue.publish events of a trace, as queue entries of the call
\* that published them
published(tr, origin) ==
    LET idx == {i \in DOMAIN tr : tr[i].e = "action_queue.publish"}
    IN [k \in 1..Cardinality(idx) |->
           [msg |-> tr[Ascending(idx)[k]].msg, priority |-> tr[Ascending(idx)[k]].priority,
            origin |-> origin]]

\* positions of the queue a consumer may be handed next: the oldest message
\* of the highest priority
next_in_queue(q) ==
    {i \in DOMAIN q :
        /\ \A j \in DOMAIN q : q[j].priority <= q[i].priority
        /\ \A j \in 1..(i - 1) : q[j].priority < q[i].priority}

remove_at(q, i) == SubSeq(q, 1, i - 1) \o SubSeq(q, i + 1, Len(q))

\* datasets handed to the Queued calls in front of the queue
PipeDsInputs ==
    {Dataset(id, MetaEmpty, CfgAX, <<1>>) : id \in DSIds}
    \cup {Dataset("d1", MetaEmpty, CfgAX, <<>>)}

\* both managers run in mode 'queue' with their queues
PipeInit ==
    /\ DmnInit
    /\ mode = "queue"
    /\ action_queue = <<>>

\* a caller invokes the Queued delete; what it publishes enters the queue
PipeDelete(ds, del_raw_data) ==
    /\ Len(action_queue) < MaxQueue
    /\ ApiDelete(ds, del_raw_data)
    /\ action_queue' = action_queue \o
           published(SMapi_delete(ds, del_raw_data, db_dataset).trace,
                     [op |-> "delete", del_raw_data |-> del_raw_data])
    /\ UNCHANGED dmn_vars

\* a caller invokes the Queued add; what it publishes enters the queue
PipeAdd(ds, del_first, priority) ==
    /\ Len(action_queue) < MaxQueue
    /\ ApiAdd(ds, del_first, priority)
    /\ action_queue' = action_queue \o
           published(SMapi_add(ds, del_first, priority, db_dataset).trace,
                     [op |-> "add", del_raw_data |-> FALSE])
    /\ UNCHANGED dmn_vars

\* the consumer takes a message, loads its dataset and calls process with the
\* message's action and extras
PipeProcess(i, rows) ==
    LET m == action_queue[i]
        ds == Dataset_load(db_dataset, m.msg.ds_id)
    IN /\ action_queue' = remove_at(action_queue, i)
       /\ call' = [op |-> "process", msg |-> m.msg, origin |-> m.origin]
       /\ IF ds = NoRow
          THEN DmnDone(Fail(DmnWorld, "UnknownDSID"))
          ELSE DmnDone(Dmn_process(DmnWorld, ds, m.msg.action, msg_extras(m.msg), rows))

(***************************************************************************)
(* SMapiDatasetManager._transform_scan: the zoom of a tile                 *)
(***************************************************************************)
VIEWPORT_WIDTH == 1000
VIEWPORT_HEIGHT == 500

\* largest zoom level requested
MaxZoom == 3

\* sizes of the reconstructed image; with these every quotient and product
\* of _transform_scan is exact in floating point
Widths == {500, 1000, 2000, 4000}
Heights == {250, 500, 1000}
ZoomLevels == 1..MaxZoom

\* a non-negative quotient n/d of integers
Frac(n, d) == [n |-> n, d |-> d]
\* min(a, b) of two quotients
frac_min(a, b) == IF a.n * b.d <= b.n * a.d THEN a ELSE b

\* int(round(x)) for x = n/d >= 0: a tie goes to the even neighbour where
\* round() rounds half to even, and away from zero where it does not
int_round(x, half_even) ==
    LET q == x.n \div x.d
        r == x.n % x.d
    IN IF 2 * r < x.d THEN q
       ELSE IF 2 * r > x.d THEN q + 1
       ELSE IF half_even /\ q % 2 = 0 THEN q
       ELSE q + 1

\* zoom = int(round(zoom * min(VIEWPORT_WIDTH / dims[0], VIEWPORT_HEIGHT / dims[1])))
transform_scan_zoom(dims, zoom, half_even) ==
    LET m == frac_min(Frac(VIEWPORT_WIDTH, dims[1]), Frac(VIEWPORT_HEIGHT, dims[2]))
    IN int_round(Frac(zoom * m.n, m.d), half_even)

\* the size of the canvas _transform_scan resamples the scan onto
transform_scan_size(dims, zoom, half_even) ==
    LET z == transform_scan_zoom(dims, zoom, half_even)
    IN <<dims[1] * z, dims[2] * z>>

NoZoom == [done |-> FALSE, zoom |-> 0, size |-> <<0, 0>>]

ZoomInit ==
    /\ round_half_even \in BOOLEAN
    /\ z_call \in [dims : Widths \X Heights, zoom : ZoomLevels]
    /\ z_zoom = NoZoom

ZoomIdle ==
    /\ round_half_even = TRUE
    /\ z_call = [dims |-> <<1000, 500>>, zoom |-> 1]
    /\ z_zoom = NoZoom

\* _transform_scan(scan, transform_, dims, zoom)
TransformScan(dims, zoom) ==
    /\ z_call' = [dims |-> dims, zoom |-> zoom]
    /\ z_zoom' = [done |-> TRUE,
                  zoom |-> transform_scan_zoom(dims, zoom, round_half_even),
                  size |-> transform_scan_size(dims, zoom, round_half_even)]
    /\ UNCHANGED round_half_even

(***************************************************************************)
(* The specifications                                                      *)
(***************************************************************************)
DmnIdle ==
    /\ job = {}
    /\ es_index = {}
    /\ iso_images = {}
    /\ input_data = {}

PipeIdle == action_queue = <<>>

SfsIdle ==
    /\ sum_formula = {}
    /\ sfs_run = <<>>

OptIdle ==
    /\ o_ds = <<>>
    /\ o_jobs = {}
    /\ optical_image = {}
    /\ raw_store = {}
    /\ tile_store = {}
    /\ next_img_id = 1
    /\ o_call = [op |-> "none"]
    /\ o_ret = "ok"
    /\ o_deleted = [raw |-> <<>>, tiles |-> <<>>]
    /\ o_posted = <<>>
    /\ img_store_strict = FALSE

InitCfg == CfgInit /\ ApiIdle /\ PeaksIdle /\ OptIdle /\ ZoomIdle /\ DmnIdle /\ PipeIdle /\ MemoIdle /\ SfsIdle
CfgCompare == CompareConfigs /\ UNCHANGED <<api_vars, peak_vars, opt_vars, zoom_vars, dmn_vars, pipe_vars, memo_vars, sfs_vars>>
NextCfg == CfgCompare
SpecCfg == InitCfg /\ [][NextCfg]_vars

InitApi == CfgIdle /\ ApiInit /\ PeaksIdle /\ OptIdle /\ ZoomIdle /\ DmnIdle /\ PipeIdle /\ MemoIdle /\ SfsIdle
QueuedAdd ==
    /\ \E ds \in DsInputs, del_first \in BOOLEAN, priority \in Priorities :
           ApiAdd(ds, del_first, priority)
    /\ UNCHANGED <<cfg_vars, peak_vars, opt_vars, zoom_vars, dmn_vars, pipe_vars, memo_vars, sfs_vars>>
QueuedDelete ==
    /\ \E ds \in DsInputs, del_raw_data \in BOOLEAN : ApiDelete(ds, del_raw_data)
    /\ UNCHANGED <<cfg_vars, peak_vars, opt_vars, zoom_vars, dmn_vars, pipe_vars, memo_vars, sfs_vars>>
QueuedUpdate ==
    /\ \E ds \in DsInputs, priority \in Priorities : ApiUpdate(ds, priority)
    /\ UNCHANGED <<cfg_vars, peak_vars, opt_vars, zoom_vars, dmn_vars, pipe_vars, memo_vars, sfs_vars>>
NextApi == QueuedAdd \/ QueuedDelete \/ QueuedUpdate
SpecApi == InitApi /\ [][NextApi]_vars

InitPeaks == CfgIdle /\ ApiIdle /\ PeaksInit /\ OptIdle /\ ZoomIdle /\ DmnIdle /\ PipeIdle /\ MemoIdle /\ SfsIdle
PeaksSetJobId ==
    /\ \E j \in JobIds : SetJobId(j)
    /\ UNCHANGED <<cfg_vars, api_vars, opt_vars, zoom_vars, dmn_vars, pipe_vars, memo_vars, sfs_vars>>
PeaksAccess == AccessSfDf /\ UNCHANGED <<cfg_vars, api_vars, opt_vars, zoom_vars, dmn_vars, pipe_vars, memo_vars, sfs_vars>>
NextPeaks == PeaksSetJobId \/ PeaksAccess
SpecPeaks == InitPeaks /\ [][NextPeaks]_vars

InitOpt == CfgIdle /\ ApiIdle /\ PeaksIdle /\ OptInit /\ ZoomIdle /\ DmnIdle /\ PipeIdle /\ MemoIdle /\ SfsIdle
OptAdd ==
    /\ \E d \in DSIds, img_id \in RawIds, t \in Transforms, z \in ZoomLists :
           AddOpticalImage(d, img_id, t, z)
    /\ UNCHANGED <<cfg_vars, api_vars, peak_vars, zoom_vars, dmn_vars, pipe_vars, memo_vars, sfs_vars>>
OptDel ==
    /\ \E d \in DSIds : DelOpticalImage(d)
    /\ UNCHANGED <<cfg_vars, api_vars, peak_vars, zoom_vars, dmn_vars, pipe_vars, memo_vars, sfs_vars>>
NextOpt == OptAdd \/ OptDel
SpecOpt == InitOpt /\ [][NextOpt]_vars

InitZoom == CfgIdle /\ ApiIdle /\ PeaksIdle /\ OptIdle /\ ZoomInit /\ DmnIdle /\ PipeIdle /\ MemoIdle /\ SfsIdle
ZoomTransformScan ==
    /\ \E dims \in Widths \X Heights, zoom \in ZoomLevels : TransformScan(dims, zoom)
    /\ UNCHANGED <<cfg_vars, api_vars, peak_vars, opt_vars, dmn_vars, pipe_vars, memo_vars, sfs_vars>>
NextZoom == ZoomTransformScan
SpecZoom == InitZoom /\ [][NextZoom]_vars

DmnRest == <<cfg_vars, peak_vars, opt_vars, zoom_vars, pipe_vars, memo_vars, sfs_vars>>
InitDaemon ==
    /\ CfgIdle /\ PeaksIdle /\ OptIdle /\ ZoomIdle /\ PipeIdle /\ MemoIdle /\ SfsIdle
    /\ DmnInit
DirectAdd ==
    /\ \E ds \in DmnDsInputs, del_first \in BOOLEAN :
           \E fault \in AddFaults(del_first) : DmnAdd(ds, del_first, fault)
    /\ UNCHANGED DmnRest
DirectUpdate ==
    /\ \E ds \in DmnDsInputs, fault \in UpdateFaults :
           \E rows \in finished_job_rows(DmnWorld, ds.id) : DmnUpdate(ds, rows, fault)
    /\ UNCHANGED DmnRest
DirectDelete ==
    /\ \E ds \in DmnDsInputs, del_raw_data \in BOOLEAN, fault \in DeleteFaults :
           DmnDelete(ds, del_raw_data, fault)
    /\ UNCHANGED DmnRest
NextDaemon == DirectAdd \/ DirectUpdate \/ DirectDelete
SpecDaemon == InitDaemon /\ [][NextDaemon]_vars

InitCrash == InitDaemon
UpdateFails ==
    /\ \E ds \in DmnDsInputs, fault \in UpdateFaults :
           \E rows \in finished_job_rows(DmnWorld, ds.id) : DmnUpdate(ds, rows, fault)
    /\ UNCHANGED DmnRest
UpdateCrashes ==
    /\ \E ds \in DmnDsInputs :
           \E rows \in finished_job_rows(DmnWorld, ds.id) :
               \E at \in 0..(Len(rows) + 1) : DmnUpdateCrash(ds, rows, at)
    /\ UNCHANGED DmnRest
NextCrash == UpdateFails \/ UpdateCrashes
SpecCrash == InitCrash /\ [][NextCrash]_vars

MemoRest == <<cfg_vars, api_vars, opt_vars, zoom_vars, dmn_vars, pipe_vars, sfs_vars>>
InitMemo ==
    /\ CfgIdle /\ ApiIdle /\ OptIdle /\ ZoomIdle /\ DmnIdle /\ PipeIdle /\ SfsIdle
    /\ MemoInit
MemoSetJobId ==
    /\ \E i \in Instances, j \in JobIds : InstSetJobId(i, j)
    /\ UNCHANGED MemoRest
MemoAccess ==
    /\ \E i \in Instances : InstAccessSfDf(i)
    /\ UNCHANGED MemoRest
MemoStorePeaks ==
    /\ \E row \in SfIds \X Adducts : StorePeaks(row)
    /\ UNCHANGED MemoRest
NextMemo == MemoSetJobId \/ MemoAccess \/ MemoStorePeaks
SpecMemo == InitMemo /\ [][NextMemo]_vars

SfsRest == <<cfg_vars, api_vars, peak_vars, opt_vars, zoom_vars, dmn_vars, pipe_vars,
             memo_vars>>
InitSfs ==
    /\ CfgIdle /\ ApiIdle /\ PeaksIdle /\ OptIdle /\ ZoomIdle /\ DmnIdle /\ PipeIdle
    /\ MemoIdle
    /\ SfsInit
FetchSfs == (\E i \in Instances : SfsFetch(i)) /\ UNCHANGED SfsRest
CountSfs == (\E i \in Instances : SfsCount(i)) /\ UNCHANGED SfsRest
InsertSfs == (\E i \in Instances : SfsInsert(i)) /\ UNCHANGED SfsRest
SelectSfs == (\E i \in Instances : SfsSelect(i)) /\ UNCHANGED SfsRest
NewInstanceSfs ==
    (\E i \in Instances, db \in MolDbIds : SfsNewInstance(i, db)) /\ UNCHANGED SfsRest
NextSfs == FetchSfs \/ CountSfs \/ InsertSfs \/ SelectSfs \/ NewInstanceSfs
SpecSfs == InitSfs /\ [][NextSfs]_vars

SaveRest == <<cfg_vars, peak_vars, opt_vars, zoom_vars, dmn_vars, pipe_vars, memo_vars, sfs_vars>>
InitSave ==
    /\ CfgIdle /\ PeaksIdle /\ OptIdle /\ ZoomIdle /\ DmnIdle /\ PipeIdle /\ MemoIdle /\ SfsIdle
    /\ SaveInit
DsSave ==
    /\ \E ds \in SaveInputs, status_queue \in BOOLEAN : SaveCall(ds, status_queue)
    /\ UNCHANGED SaveRest
DsSetStatus ==
    /\ \E ds \in SaveInputs, status_queue \in BOOLEAN, status \in SetStatuses :
           SetStatusCall(ds, status_queue, status)
    /\ UNCHANGED SaveRest
NextSave == DsSave \/ DsSetStatus
SpecSave == InitSave /\ [][NextSave]_vars

PipeRest == <<cfg_vars, peak_vars, opt_vars, zoom_vars, memo_vars, sfs_vars>>
InitPipe ==
    /\ CfgIdle /\ PeaksIdle /\ OptIdle /\ ZoomIdle /\ MemoIdle /\ SfsIdle
    /\ PipeInit
QueuedDeleteCall ==
    /\ \E ds \in PipeDsInputs, del_raw_data \in BOOLEAN : PipeDelete(ds, del_raw_data)
    /\ UNCHANGED PipeRest
QueuedAddCall ==
    /\ \E ds \in PipeDsInputs, del_first \in BOOLEAN : PipeAdd(ds, del_first, DEFAULT)
    /\ UNCHANGED PipeRest
ConsumeMessage ==
    /\ \E i \in next_in_queue(action_queue) :
           \E rows \in finished_job_rows(DmnWorld, action_queue[i].msg.ds_id) :
               PipeProcess(i, rows)
    /\ UNCHANGED PipeRest
NextPipe == QueuedDeleteCall \/ QueuedAddCall \/ ConsumeMessage
SpecPipe == InitPipe /\ [][NextPipe]_vars

(***************************************************************************)
(* Properties of the Queued dispatcher (SpecApi)                           *)
(***************************************************************************)
IsActionPublish(ev) == ev.e = "action_queue.publish"
\* the messages a call published to the action queue, in order
ActionPublishes(tr) == SelectSeq(tr, IsActionPublish)

\* C1: Queued add with del_first=false of a dataset whose id has a row in
\* storage fails with DSIDExists; the failing call has no effect on any
\* collaborator (nothing published to the action queue or the status channel,
\* no storage write, no search-index call) and leaves every stored row,
\* status included, as it was.
C1_AddExistingFails ==
    [][(call'.op = "add" /\ ~call'.del_first /\ is_stored(db_dataset, call'.ds))
        => (ret' = "DSIDExists" /\ trace' = <<>> /\ db_dataset' = db_dataset)]_vars

C1_Witness ==
    /\ call.op = "add"
    /\ ~call.del_first
    /\ ret = "DSIDExists"
    /\ db_dataset[call.ds.id].status = FAILED

\* C2: every message Queued delete publishes to the action queue has action
\* DELETE and priority HIGH; Queued delete never fails with DSIDExists, and
\* whatever row and status the dataset has in storage it fails only when the
\* caller's dataset lacks a field that save requires.
C2_DeleteAlwaysHigh ==
    call.op = "delete" =>
        /\ ret # "DSIDExists"
        /\ ret = "ok" \/ (ret = "AssertionError" /\ call.ds.mol_dbs = <<>>)
        /\ \A i \in DOMAIN trace :
               IsActionPublish(trace[i]) =>
                   trace[i].msg.action = DELETE /\ trace[i].priority = HIGH
        /\ (ret = "ok" /\ mode = "queue") => Len(ActionPublishes(trace)) = 1

C2_Witness ==
    /\ call.op = "delete"
    /\ ret = "ok"
    /\ Len(ActionPublishes(trace)) = 1
    /\ ActionPublishes(trace)[1].priority = HIGH
    /\ ActionPublishes(trace)[1].msg.ds_id = call.ds.id

\* the stored dataset and the caller's dataset agree on config and metadata
SameConfigAndMetadata(db, ds) ==
    /\ is_stored(db, ds)
    /\ json_loads(db[ds.id].config) = ds.config
    /\ json_loads(db[ds.id].metadata) = ds.metadata

\* C3: Queued update of a stored dataset whose new config and new metadata
\* both equal the stored ones returns normally and performs zero writes and
\* zero publishes, leaving the stored row unchanged.
C3_IdenticalUpdateIsNoOp ==
    [][(call'.op = "update" /\ SameConfigAndMetadata(db_dataset, call'.ds))
        => (ret' = "ok" /\ trace' = <<>> /\ db_dataset' = db_dataset)]_vars

\* the classifier as the decision table reads it
RefRest(c) == [k \in (DOMAIN c) \ {"databases"} |-> c[k]]
RefPairs(c) ==
    IF "databases" \in DOMAIN c
    THEN {<<c.databases[i].name,
            IF "version" \in DOMAIN c.databases[i] THEN c.databases[i].version ELSE None>> :
          i \in DOMAIN c.databases}
    ELSE {}
RefClassify(old, new) ==
    IF RefRest(old) # RefRest(new) THEN INSTR_PARAMS_DIFF
    ELSE IF \E pr \in RefPairs(new) : pr \notin RefPairs(old) THEN NEW_MOL_DB
    ELSE EQUAL

\* what the decision table publishes for one update: <<action, del_first, priority>>
\* of each message
TableMessages(old_config, old_metadata, ds, priority) ==
    LET diff == RefClassify(old_config, ds.config)
    IN IF diff = INSTR_PARAMS_DIFF THEN <<<<ADD, TRUE, priority>>>>
       ELSE IF diff = NEW_MOL_DB THEN <<<<ADD, FALSE, priority>>>>
       ELSE IF old_metadata # ds.metadata THEN <<<<UPDATE, FALSE, HIGH>>>>
       ELSE <<>>

PublishedMessages(tr) ==
    [i \in DOMAIN ActionPublishes(tr) |->
        <<ActionPublishes(tr)[i].msg.action,
          dict_get(ActionPublishes(tr)[i].msg, "del_first", FALSE),
          ActionPublishes(tr)[i].priority>>]

\* C4: Queued update (queue mode) of a stored dataset publishes exactly the
\* messages of the decision table: one ADD with del_first=true at the caller's
\* priority for INSTR_PARAMS_DIFF, one ADD with del_first=false at the caller's
\* priority for NEW_MOL_DB, one UPDATE at HIGH for EQUAL with changed metadata,
\* none for EQUAL with unchanged metadata.
C4_UpdateDecisionTable ==
    [][(call'.op = "update" /\ mode = "queue" /\ is_stored(db_dataset, call'.ds)
        /\ save_assertion(call'.ds))
        => PublishedMessages(trace') =
               TableMessages(json_loads(db_dataset[call'.ds.id].config),
                             json_loads(db_dataset[call'.ds.id].metadata),
                             call'.ds, call'.priority)]_vars

(***************************************************************************)
(* Properties of the peak table (SpecPeaks)                                *)
(***************************************************************************)
\* C5: every table sf_df returns, on the first access and on every later one,
\* has pairwise distinct (sf_id, adduct) pairs: a table with a duplicate pair
\* is never returned.
C5_ReturnedTableUnique ==
    m_out.some =>
        \A i, j \in DOMAIN m_out.rows : i # j => m_out.rows[i] # m_out.rows[j]

TargetRows == {r \in theor_peaks : r[2] \in TargetAdducts}
DecoyRows(j) == {r \in theor_peaks : target_decoy_add[j][r[1]] = r[2]}
\* a table made of all the target rows and all the decoy rows of one job, with
\* at least one row of each kind
WholeTable(rows) ==
    /\ TargetRows # {}
    /\ \E j \in JobIds :
           /\ DecoyRows(j) # {}
           /\ {rows[i] : i \in DOMAIN rows} = TargetRows \cup DecoyRows(j)
           /\ Len(rows) = Cardinality(TargetRows) + Cardinality(DecoyRows(j))

\* C6: an access of sf_df whose target query or decoy query returns zero rows
\* aborts with an assertion error, returns no table and caches none; a table
\* that is returned or cached always holds the rows of both queries, never
\* target rows alone or decoy rows alone.
C6_NoPartialTable ==
    /\ ((m_q.target.ran /\ m_q.target.rows = <<>>) \/ (m_q.decoy.ran /\ m_q.decoy.rows = <<>>))
           => /\ m_ret \in {"AssertionError: target", "AssertionError: decoy"}
              /\ ~m_out.some
              /\ ~m_sf_df.some
    /\ m_out.some => WholeTable(m_out.rows)
    /\ m_sf_df.some => WholeTable(m_sf_df.rows)

C6_Witness ==
    /\ m_ret = "AssertionError: decoy"
    /\ m_q.target.rows # <<>>
    /\ m_q.decoy.ran
    /\ m_job_id # None

(***************************************************************************)
(* Properties of ConfigDiff.compare_configs (SpecCfg)                      *)
(***************************************************************************)
\* C7: compare_configs(old, new) is the reference classifier on every pair of
\* configs: INSTR_PARAMS_DIFF iff the configs without `databases` differ,
\* otherwise NEW_MOL_DB iff new's set of (name, version) pairs holds a pair
\* that old's set lacks, otherwise EQUAL.
C7_MatchesReference ==
    \A i \in DOMAIN cc_res : cc_res[i] = RefClassify(cc_in[1], cc_in[2])

\* a database was removed from the list and the result is EQUAL
C7_Witness ==
    /\ Len(cc_res) > 0
    /\ cc_res[1] = EQUAL
    /\ RefRest(cc_in[1]) = RefRest(cc_in[2])
    /\ RefPairs(cc_in[2]) # RefPairs(cc_in[1])
    /\ RefPairs(cc_in[2]) \subseteq RefPairs(cc_in[1])

\* C8: compare_configs yields the same result each time it is called on a
\* pair of configs, leaves both argument dicts as they were, and returns
\* EQUAL whenever the two configs are equal, with or without `databases`.
C8_DeterministicReflexive ==
    Len(cc_res) > 0 =>
        /\ \A i, j \in DOMAIN cc_res : cc_res[i] = cc_res[j]
        /\ cc_old = cc_in[1]
        /\ cc_new = cc_in[2]
        /\ cc_in[1] = cc_in[2] => \A i \in DOMAIN cc_res : cc_res[i] = EQUAL

C8_Witness ==
    /\ Len(cc_res) >= 2
    /\ cc_in[1] = cc_in[2]
    /\ "databases" \in DOMAIN cc_in[1]
    /\ Len(cc_in[1].databases) = 2
    /\ cc_res[2] = EQUAL

(***************************************************************************)
(* Properties of the optical images (SpecOpt)                              *)
(***************************************************************************)
\* nothing of the dataset's optical imagery is stored
NothingStored(ds_id) ==
    /\ o_ds[ds_id] = NoRow \/ o_ds[ds_id] = RawCols(None, None)
    /\ \A r \in optical_image : r[2] # ds_id

\* C9: after a del_optical_image that returns, every tile id stored for the
\* dataset and its raw image id are gone from the image store, the dataset
\* has no tile rows and its raw image id and transform are NULL; on a dataset
\* with nothing stored (as after a first delete) the call returns without
\* error, deletes nothing from the image store and changes nothing.
C9_DelOpticalImage ==
    [][o_call'.op = "del_optical_image" =>
        LET d == o_call'.ds IN
        /\ o_ret' = "ok" =>
               /\ \A r \in optical_image : r[2] = d => r[1] \notin tile_store'
               /\ (o_ds[d] # NoRow /\ o_ds[d].optical_image # None)
                      => o_ds[d].optical_image \notin raw_store'
               /\ \A r \in optical_image' : r[2] # d
               /\ o_ds'[d] # NoRow => o_ds'[d] = RawCols(None, None)
        /\ NothingStored(d) =>
               /\ o_ret' = "ok"
               /\ o_deleted' = [raw |-> <<>>, tiles |-> <<>>]
               /\ UNCHANGED <<o_ds, optical_image, raw_store, tile_store>>]_vars

\* a delete that removed a raw image and two tiles
C9_Witness ==
    /\ o_call.op = "del_optical_image"
    /\ o_ret = "ok"
    /\ Len(o_deleted.raw) = 1
    /\ Len(o_deleted.tiles) = 2
    /\ o_ds[o_call.ds] = RawCols(None, None)

\* C10: after a successful add_optical_image with zoom levels Z the tile rows
\* of the dataset are exactly the tiles the call posted, one per element of Z
\* keyed (tile id, dataset id, zoom); every tile id the dataset had before is
\* gone from the image store and has no row; every posted tile is in the
\* image store; rows and tiles of other datasets are untouched.
C10_AddReplacesTiles ==
    [][(o_call'.op = "add_optical_image" /\ o_ret' = "ok") =>
        LET d == o_call'.ds
            Z == o_call'.zoom_levels
            old == {r \in optical_image : r[2] = d}
            others == {r \in optical_image : r[2] # d}
        IN /\ Len(o_posted') = Len(Z)
           /\ \A k, l \in DOMAIN Z : k # l => o_posted'[k] # o_posted'[l]
           /\ \A k \in DOMAIN Z : o_posted'[k] \notin tile_store
           /\ \A k \in DOMAIN Z : o_posted'[k] \in tile_store'
           /\ {r \in optical_image' : r[2] = d}
                  = {<<o_posted'[k], d, Z[k]>> : k \in DOMAIN Z}
           /\ \A r \in old : r[1] \notin tile_store'
                                 /\ \A q \in optical_image' : q[1] # r[1]
           /\ {r \in optical_image' : r[2] # d} = others
           /\ \A r \in others : r[1] \in tile_store']_vars

\* an add that replaced tiles while another dataset has a tile
C10_Witness ==
    /\ o_call.op = "add_optical_image"
    /\ o_ret = "ok"
    /\ Len(o_posted) = 1
    /\ o_deleted.tiles # <<>>
    /\ \E r \in optical_image : r[2] # o_call.ds

(***************************************************************************)
(* Properties of _transform_scan (SpecZoom)                                *)
(***************************************************************************)
\* round(zoom * min(1000/width, 500/height)) with ties rounded up
RefRoundHalfUp(dims, zoom) ==
    LET byWidth == 1000 * dims[2] <= 500 * dims[1]
        n == IF byWidth THEN zoom * 1000 ELSE zoom * 500
        d == IF byWidth THEN dims[1] ELSE dims[2]
    IN (2 * n + d) \div (2 * d)

\* C11: the effective zoom computed by _transform_scan is
\* round(zoom * min(1000/width, 500/height)) with ties rounded up; it is 1 for
\* a 1000x500 image at zoom 1 and 1 for a 2000x500 image at zoom 1
C11_EffectiveZoom ==
    z_zoom.done =>
        /\ z_zoom.zoom = RefRoundHalfUp(z_call.dims, z_call.zoom)
        /\ (z_call.dims = <<1000, 500>> /\ z_call.zoom = 1 => z_zoom.zoom = 1)
        /\ (z_call.dims = <<2000, 500>> /\ z_call.zoom = 1 => z_zoom.zoom = 1)

(***************************************************************************)
(* Properties of the Direct dispatcher (SpecDaemon)                        *)
(***************************************************************************)
\* the events of a trace with the given name
Events(tr, name) == {i \in DOMAIN tr : tr[i].e = name}
\* the events of a trace that run the given statement on the database
SqlEvents(tr, sql) == {i \in DOMAIN tr : tr[i].e \in {"db.alter", "db.insert"} /\ tr[i].sql = sql}
\* the search-index entries of a dataset
EsOf(es, ds_id) == {x \in es : x.ds_id = ds_id}

\* C12: in Direct delete an UnknownDSID raised while cleaning up the isotope
\* images is swallowed: on a dataset whose row is already gone the delete still
\* removes the dataset's search-index entries and its row and returns without
\* error; any other failure of the cleanup reaches the caller before the
\* search index or the dataset row is touched.
C12_DeleteSwallowsNotFound ==
    [][call'.op = "delete" =>
        /\ ret' # "UnknownDSID"
        /\ (db_dataset[call'.ds.id] = NoRow
              /\ call'.fault \in {"none", "img_store.delete_image_by_id"})
            => /\ ret' = "ok"
               /\ EsOf(es_index', call'.ds.id) = {}
               /\ db_dataset'[call'.ds.id] = NoRow
               /\ Events(trace', "es.delete_ds") # {}
               /\ SqlEvents(trace', "DELETE FROM dataset") # {}
        /\ ret' = "ImageStoreError"
            => /\ es_index' = es_index
               /\ db_dataset' = db_dataset
               /\ Events(trace', "es.delete_ds") = {}
               /\ SqlEvents(trace', "DELETE FROM dataset") = {}]_vars

\* a delete of a dataset without a row, with a job, that removed index entries
C12_Witness ==
    /\ call.op = "delete"
    /\ ret = "ok"
    /\ Events(trace, "logger.warning") # {}
    /\ Events(trace, "es.delete_ds") # {}
    /\ \E j \in job : j.ds_id = call.ds.id

\* the notifications of status DELETED in a trace
DeletedPublishes(tr) ==
    {i \in Events(tr, "status_queue.publish") : tr[i].msg.status = DELETED}
\* the event persists a row of table dataset for the id
PersistsRow(ev, ds_id) ==
    ev.e \in {"db.insert", "db.alter"} /\ ev.sql \in {"DS_INSERT", "DS_UPD"} /\ ev.ds_id = ds_id
\* the event publishes a status for the id
PublishesStatus(ev, ds_id) == ev.e = "status_queue.publish" /\ ev.msg.ds_id = ds_id

\* C13 as claimed: once a dispatch has published DELETED for an id, no later
\* step of the dispatch persists a dataset row for the id or writes or
\* publishes another status for it, Direct add with del_first=true included.
C13_DeletedIsTerminal ==
    \A i \in DeletedPublishes(trace) : \A k \in DOMAIN trace :
        k > i => /\ ~PersistsRow(trace[k], trace[i].msg.ds_id)
                 /\ ~PublishesStatus(trace[k], trace[i].msg.ds_id)

\* C13 as amended: once a dispatch has published DELETED for an id, no later
\* step publishes another status for it; Direct delete does nothing after the
\* notification, and only Direct add with del_first=true persists the row
\* again, once, by an insert.
C13_DeletedThenOnlyAddPersists ==
    \A i \in DeletedPublishes(trace) :
        /\ \A k \in DOMAIN trace : k > i => ~PublishesStatus(trace[k], trace[i].msg.ds_id)
        /\ call.op = "delete" => i = Len(trace)
        /\ LET later == {k \in DOMAIN trace :
                            k > i /\ PersistsRow(trace[k], trace[i].msg.ds_id)}
           IN /\ later # {} => (call.op = "add" /\ call.del_first)
              /\ Cardinality(later) <= 1
              /\ \A k \in later : trace[k].sql = "DS_INSERT"

\* an add with del_first=true that published DELETED and then stored the row
C13_Witness ==
    /\ call.op = "add"
    /\ call.del_first
    /\ ret = "ok"
    /\ \E i \in DeletedPublishes(trace) : \E k \in SqlEvents(trace, "DS_INSERT") : k > i
    /\ db_dataset[call.ds.id] # NoRow

\* the jobs of a dataset
JobsOf(jobs, ds_id) == {j \in jobs : j.ds_id = ds_id}
\* the job's molecular database is in the config's database list
InNewList(j, ds) ==
    \E i \in DOMAIN ds.config.databases :
        ds.config.databases[i].name = find_db_by_id(j.db_id).name
\* the events of a trace that re-index the job
IndexEvents(tr, job_id) == {i \in Events(tr, "es.index_ds") : tr[i].job_id = job_id}
\* the events of a trace that delete the job's row
JobDeleteEvents(tr, job_id) == {i \in SqlEvents(tr, "DELETE FROM job") : tr[i].job_id = job_id}

\* C14: a Direct update of a complete dataset whose collaborators do not fail
\* succeeds, and then every previously completed job of the dataset whose
\* molecular database is no longer in the new config's list has had its rows
\* deleted, every other one has been re-indexed exactly once with the new
\* isotope-generation parameters, no job is both deleted and re-indexed, and
\* no job of another dataset is touched.
C14_UpdateReindexesJobs ==
    [][(call'.op = "update" /\ call'.fault = "none" /\ call'.ds.mol_dbs # <<>>) =>
        /\ ret' = "ok"
        /\ \A j \in JobsOf(job, call'.ds.id) :
               IF InNewList(j, call'.ds)
               THEN /\ j \in job'
                    /\ Cardinality(IndexEvents(trace', j.id)) = 1
                    /\ JobDeleteEvents(trace', j.id) = {}
                    /\ EsEntry(j.ds_id, find_db_by_id(j.db_id).name,
                               call'.ds.config.isotope_generation) \in es_index'
               ELSE /\ j \notin job'
                    /\ IndexEvents(trace', j.id) = {}
        /\ \A j \in job \ JobsOf(job, call'.ds.id) :
               /\ j \in job'
               /\ IndexEvents(trace', j.id) = {} /\ JobDeleteEvents(trace', j.id) = {}
        /\ \A d \in DSIds \ {call'.ds.id} : EsOf(es_index', d) = EsOf(es_index, d)]_vars

\* the events of a trace that persist the dataset's row with the status
StatusWrites(tr, ds_id, status) ==
    {i \in DOMAIN tr : PersistsRow(tr[i], ds_id) /\ tr[i].status = status}
\* the events of a trace that publish the status of the dataset
StatusPublishes(tr, ds_id, status) ==
    {i \in DOMAIN tr : PublishesStatus(tr[i], ds_id) /\ tr[i].msg.status = status}
\* the steps of update between the two status changes
ReindexWork(tr) ==
    Events(tr, "es.delete_ds") \cup SqlEvents(tr, "DELETE FROM job")
        \cup Events(tr, "es.index_ds")

DeleteSteps(tr) ==
    Events(tr, "logger.warning") \cup Events(tr, "img_store.delete_image_by_id")
        \cup Events(tr, "es.delete_ds") \cup SqlEvents(tr, "DELETE FROM dataset")
        \cup Events(tr, "del_input_data") \cup DeletedPublishes(tr)

\* C16: in Direct add with del_first the complete Direct delete finishes
\* before the dataset is persisted; the job factory's run is invoked at most
\* once, exactly once in every add that persists the dataset, and only after
\* the row has been persisted and synced to the search index; a failure raised
\* by the job factory reaches the caller unmodified and the row persisted by
\* this add stays in storage.
C16_AddOrder ==
    [][call'.op = "add" =>
        LET id == call'.ds.id
            writes == {i \in DOMAIN trace' : PersistsRow(trace'[i], id)}
            syncs == Events(trace', "es.sync_dataset")
            runs == Events(trace', "search_job.run")
        IN /\ Cardinality(runs) <= 1
           /\ \A r \in runs : \E i \in writes, k \in syncs : i < k /\ k < r
           /\ writes # {} => Cardinality(runs) = 1
           /\ ret' = "ok" => Cardinality(runs) = 1
           /\ ~call'.del_first => DeleteSteps(trace') = {}
           /\ (call'.del_first /\ writes # {}) =>
                  /\ Events(trace', "es.delete_ds") # {}
                  /\ SqlEvents(trace', "DELETE FROM dataset") # {}
                  /\ mode = "queue" => DeletedPublishes(trace') # {}
                  /\ \A d \in DeleteSteps(trace'), i \in writes : d < i
           /\ (call'.fault = "run" /\ writes # {}) => ret' = "JobError"
           /\ ret' = "JobError" =>
                  /\ runs # {}
                  /\ db_dataset'[id] = ds_row(call'.ds)]_vars

\* an add with del_first whose job factory failed: the row is in storage
C16_Witness ==
    /\ call.op = "add"
    /\ call.del_first
    /\ ret = "JobError"
    /\ SqlEvents(trace, "DELETE FROM dataset") # {}
    /\ db_dataset[call.ds.id] = ds_row(call.ds)

(***************************************************************************)
(* Properties of Dataset.save (SpecSave)                                   *)
(***************************************************************************)
\* the fields other than status that the dataset lacks
MissingRequired(ds) == {f \in DsFields \ {"status"} : Without(ds, f) = ds}

\* C17: Dataset.save persists a row only when every field other than status
\* is present; when one of them is missing save fails before any storage
\* write, search-index sync or status publish; a missing status alone does
\* not make save fail.
C17_SaveRequiresAllButStatus ==
    [][call'.op = "save" =>
        /\ MissingRequired(call'.ds) # {} =>
               (ret' # "ok" /\ trace' = <<>> /\ db_dataset' = db_dataset)
        /\ MissingRequired(call'.ds) = {} => ret' = "ok"]_vars

\* the dataset object as the call leaves it
SavedDs(c) == IF c.op = "set_status" THEN [c.ds EXCEPT !.status = c.status] ELSE c.ds

\* C18: every successful save leaves one stored row for the id holding the
\* object's current fields, written by an insert when no row existed and by a
\* full update of the existing row otherwise, other rows untouched; then
\* calls the search-index sync for the id once; then publishes {ds_id, status}
\* if and only if a status queue was supplied; set_status(s) persists s
\* through the same sequence.
C18_SaveWritesSyncsPublishes ==
    [][(call'.op \in {"save", "set_status"} /\ ret' = "ok") =>
        LET ds == SavedDs(call')
        IN /\ Dataset_load(db_dataset', ds.id) = ds
           /\ \A d \in DSIds \ {ds.id} : db_dataset'[d] = db_dataset[d]
           /\ Len(trace') = IF call'.status_queue THEN 3 ELSE 2
           /\ trace'[1].ds_id = ds.id
           /\ IF db_dataset[ds.id] = NoRow
              THEN trace'[1].e = "db.insert" /\ trace'[1].sql = "DS_INSERT"
              ELSE trace'[1].e = "db.alter" /\ trace'[1].sql = "DS_UPD"
           /\ trace'[2] = [e |-> "es.sync_dataset", ds_id |-> ds.id]
           /\ call'.status_queue =>
                  trace'[3] = [e |-> "status_queue.publish",
                               msg |-> [ds_id |-> ds.id, status |-> ds.status]]
           /\ call'.op = "set_status" => db_dataset'[ds.id].status = call'.status]_vars

\* a set_status that updated an existing row and published the status
C18_Witness ==
    /\ call.op = "set_status"
    /\ ret = "ok"
    /\ Len(trace) = 3
    /\ trace[1].e = "db.alter"
    /\ db_dataset[call.ds.id].status = QUEUED
    /\ call.ds.status # QUEUED

(***************************************************************************)
(* Further properties of the optical images (SpecOpt)                      *)
(***************************************************************************)
\* C19: add_optical_image for a dataset without a completed job fails with
\* NotFound (UnknownDSID), unless the image store already failed the removal
\* of the old raw image, and the failing call stores and deletes no tile.
C19_AddWithoutJobNotFound ==
    [][(o_call'.op = "add_optical_image" /\ o_call'.ds \notin o_jobs) =>
        /\ o_ret' \in {"UnknownDSID", "ImageStoreError"}
        /\ o_posted' = <<>>
        /\ o_deleted'.tiles = <<>>
        /\ tile_store' = tile_store
        /\ optical_image' = optical_image]_vars

(***************************************************************************)
(* Further properties of the Queued dispatcher (SpecApi)                   *)
(***************************************************************************)
\* the positions of the action-queue messages of a trace
ActionPublishEvents(tr) == {i \in DOMAIN tr : IsActionPublish(tr[i])}

\* the dispatch is one that produces a message: an add that does not fail with
\* DSIDExists, a delete, an update in a message-producing row of the table
ProducesMessage(c, db) ==
    \/ c.op = "add" /\ (c.del_first \/ ~is_stored(db, c.ds))
    \/ c.op = "delete"
    \/ /\ c.op = "update"
       /\ is_stored(db, c.ds)
       /\ TableMessages(json_loads(db[c.ds.id].config), json_loads(db[c.ds.id].metadata),
                        c.ds, c.priority) # <<>>

\* C20: every Queued dispatch that produces a message, of a dataset save
\* accepts, first persists status QUEUED and then publishes exactly one
\* message to the action queue; a message is never published without QUEUED
\* persisted before it, and QUEUED is never persisted by a dispatch that then
\* publishes no message.
C20_QueuedBeforeMessage ==
    [][call'.op \in {"add", "delete", "update"} =>
        LET id == call'.ds.id
            queued == StatusWrites(trace', id, QUEUED)
            msgs == ActionPublishEvents(trace')
        IN /\ Cardinality(msgs) <= 1
           /\ \A p \in msgs : \E i \in queued : i < p
           /\ queued # {} => msgs # {}
           /\ (ProducesMessage(call', db_dataset) /\ save_assertion(call'.ds)) =>
                  (Cardinality(msgs) = 1 /\ db_dataset'[id].status = QUEUED)]_vars

(***************************************************************************)
(* Properties of the action queue (SpecPipe)                               *)
(***************************************************************************)
\* the raw input data removals of a trace
RawDataRemovals(tr) == Events(tr, "del_input_data")

\* C21: a Queued delete called with del_raw_data = true publishes a DELETE
\* message whose extras carry del_raw_data = true, and the Direct delete that
\* consumes the message removes the dataset's raw input data; a message of a
\* delete called with del_raw_data = false removes none.
C21_DelRawDataReachesDelete ==
    /\ (call.op = "delete" /\ call.del_raw_data /\ ret = "ok")
           => \E i \in DOMAIN trace :
                  /\ trace[i].e = "action_queue.publish"
                  /\ trace[i].msg.action = DELETE
                  /\ dict_get(msg_extras(trace[i].msg), "del_raw_data", FALSE) = TRUE
    /\ (call.op = "process" /\ call.msg.action = DELETE /\ ret = "ok")
           => /\ call.origin.del_raw_data
                  => /\ RawDataRemovals(trace) # {}
                     /\ call.msg.input_path \notin input_data
              /\ ~call.origin.del_raw_data => RawDataRemovals(trace) = {}


(***************************************************************************)
(* Properties of an interrupted Direct update (SpecCrash)                  *)
(***************************************************************************)
\* the search-index entries of a job
EntriesOfJob(es, j) == {x \in es : x.ds_id = j.ds_id /\ x.mol_db = find_db_by_id(j.db_id).name}
\* the step is an update that did not reach its end
Interrupted == call'.op = "update" /\ ret' # "ok"

Assembled(m) == m.sf_df.some /\ check_formula_uniqueness(m.sf_df.rows)

\* C23: the peak table is cached per instance and computed once. An access
\* of sf_df on an instance that has assembled its table issues no storage
\* query and returns that same table, whatever set_job_id and the storage did
\* in between; an access changes the cache of no other instance, and an
\* instance without a cached table queries storage even when another one has
\* its table; an assembly that failed on an empty query result caches
\* nothing; set_job_id leaves every cache as it is.
C23_MemoizedPerInstance ==
    [][/\ i_last'.op = "sf_df" =>
            LET i == i_last'.inst IN
            /\ Assembled(inst[i]) =>
                   /\ i_last'.ret = "ok"
                   /\ ~i_last'.target.ran /\ ~i_last'.decoy.ran
                   /\ i_last'.out = inst[i].sf_df
                   /\ inst'[i].sf_df = inst[i].sf_df
            /\ ~inst[i].sf_df.some => i_last'.target.ran
            /\ i_last'.ret \in {"AssertionError: target", "AssertionError: decoy"} =>
                   ~inst'[i].sf_df.some
            /\ \A k \in Instances \ {i} : inst'[k] = inst[k]
       /\ i_last'.op = "set_job_id" =>
            \A k \in Instances : inst'[k].sf_df = inst[k].sf_df]_vars

\* an instance returned its cached table without a query although its job id
\* was changed after the assembly and would now select other decoy rows,
\* while the other instance has no table
C23_Witness ==
    /\ i_last.op = "sf_df" /\ i_last.ret = "ok"
    /\ ~i_last.target.ran /\ ~i_last.decoy.ran
    /\ LET m == inst[i_last.inst]
       IN /\ m.job_id # None
          /\ decoy_sf_peaks_rs(m.job_id) # <<>>
          /\ i_last.out # Df(sort_values(target_sf_peaks_rs \o decoy_sf_peaks_rs(m.job_id)))
    /\ \E k \in Instances \ {i_last.inst} : ~inst[k].sf_df.some

(***************************************************************************)
(* Properties of the formula table (SpecSfs)                               *)
(***************************************************************************)
\* C24: whatever the interleaving of the sfs accesses of the instances, table
\* sum_formula never holds two rows with the same database id and formula.
C24_FormulasInsertedOnce ==
    \A r1, r2 \in sum_formula :
        (r1.db_id = r2.db_id /\ r1.sf = r2.sf) => r1 = r2

====
